---------------------------- MODULE Spec2Model ----------------------------
(***************************************************************************)
(* Procedural road-network generator (client/src/components/               *)
(* city-generator.tsx, client/src/lib/city-generator-logic.ts) and the     *)
(* unifier worker (client/public/road-network-worker.js).                  *)
(*                                                                         *)
(* Numbers are fixed point.  Coordinates and lengths are whole world       *)
(* units, angles are whole degrees, random() and the trigonometric         *)
(* functions are scaled by 10000 and the population field by 1000.  The    *)
(* three transcendental/bitwise primitives of the code (hash, Math.sin of  *)
(* the integer RNG state, sin/cos of an angle) are tabulated from the      *)
(* code's own formulas; everything above them is computed.                 *)
(***************************************************************************)
EXTENDS Integers, Sequences, FiniteSets, TLC

(***************************************************************************)
(* hash(n) of noise(), floor(hash(n) * 1000), for n = -HashSpan..HashSpan. *)
(***************************************************************************)
HashTable ==
  <<
     490, 859, 976, 667, 615, 135, 289, 707, 946, 522, 859, 447, 44, 351, 243, 307, 287, 199, 897, 573, 518, 452, 722, 769, 171, 718, 221, 868, 874, 69,
     893, 612, 140, 665, 849, 95, 776, 393, 373, 322, 415, 405, 384, 762, 226, 856, 304, 444, 751, 53, 795, 560, 660, 747, 152, 216, 209, 72, 128, 746,
     85, 900, 228, 292, 424, 861, 274, 637, 398, 588, 752, 530, 876, 589, 495, 321, 237, 793, 331, 775, 249, 136, 965, 114, 485, 471, 525, 401, 239, 610,
     287, 807, 454, 894, 787, 964, 49, 378, 432, 363, 579, 16, 406, 884, 920, 367, 455, 804, 59, 189, 232, 345, 90, 339, 583, 807, 220, 539, 592, 544,
     384, 130, 201, 390, 596, 991, 783, 437, 930, 46, 330, 548, 877, 975, 941, 751, 368, 559, 680, 370, 79, 276, 339, 415, 879, 435, 683, 552, 66, 448,
     348, 318, 787, 437, 105, 324, 167, 754, 486, 234, 974, 182, 545, 595, 488, 99, 430, 93, 260, 155, 675, 914, 37, 725, 264, 186, 588, 46, 745, 201,
     88, 436, 874, 927, 823, 974, 257, 40, 19, 701, 876, 761, 732, 141, 284, 510, 206, 422, 380, 216, 594, 297, 482, 285, 704, 999, 745, 223, 931, 323,
     811, 713, 820, 196, 345, 363, 28, 577, 732, 596, 439, 630, 126, 523, 288, 649, 646, 899, 961, 826, 402, 80, 690, 89, 733, 528, 787, 731, 42, 313,
     125, 71, 113, 924, 188, 550, 342, 834, 301, 895, 139, 648, 893, 446, 967, 973, 417, 269, 59, 61, 225, 44, 661, 621, 380, 964, 59, 635, 549, 547,
     849, 838, 810, 257, 714, 345, 724, 573, 631, 890, 289, 662, 936, 390, 837, 786, 460, 902, 502, 970, 384, 926, 332, 63, 19, 864, 306, 1, 551, 362,
     398, 61, 10, 769, 408, 507, 736, 172, 459, 730, 961, 770, 273, 471, 541, 71, 682, 754, 44, 318, 693, 638, 827, 234, 237, 758, 467, 254, 620, 983,
     229, 391, 140, 798, 855, 686, 627, 584, 0, 862, 921, 978, 413, 947, 846, 160, 207, 271, 602, 80, 662, 336, 349, 54, 72, 610, 230, 391, 868, 427,
     28, 503, 952, 88, 527, 237, 308, 285, 464, 799, 898, 977, 874, 763, 290, 362, 657, 853, 198, 465, 995, 992, 199, 326, 108, 664, 161, 400, 416, 524,
     399, 455, 568, 377, 608, 861, 631, 786, 860, 334, 351, 409, 311, 636, 719, 246, 589, 629, 641, 139, 248, 647, 380, 613, 240, 444, 653, 21, 256, 727,
     236, 510, 480, 663, 712, 623, 190, 866, 579, 459, 624, 119, 361, 402, 355, 685, 97, 334, 679, 808, 860, 548, 929, 850, 283, 353, 444, 344, 285, 894,
     73, 418, 934, 707, 903, 292, 396, 889, 798, 958, 450, 770, 812, 144, 466, 955, 881, 471, 980, 529, 20, 598, 65, 22, 576, 203, 192, 730, 477, 529,
     183, 423, 769, 200, 82, 564, 429, 936, 753, 524, 603, 294, 210, 824, 190, 983, 598, 129, 39, 797, 183, 182, 594, 138, 356, 751, 497, 784, 129, 275,
     245, 886, 801, 619, 358, 857, 495, 246, 318, 932, 892, 55, 910, 95, 395, 494, 597, 133, 750, 294, 961, 101, 637, 859, 387, 515, 856, 842, 437, 937,
     745, 478, 61, 470, 977, 563, 493, 73, 963, 200, 588, 463, 657, 802, 101, 119, 803, 700, 179, 608, 373, 476, 598, 376, 152, 592, 346, 671, 122, 460,
     740, 562, 260, 654, 827, 205, 542, 60, 959, 841, 40, 683, 34, 316, 292, 318, 514, 720, 87, 106, 372, 357, 183, 91, 459, 923, 752, 352, 888, 231,
     530, 268, 597, 773, 967, 223, 765, 884, 842, 295, 802, 783, 601, 440, 864, 757, 807, 905, 527, 710, 937, 447, 939, 578, 758, 8, 269, 63, 424, 781,
     418, 236, 973, 540, 250, 221, 659, 54, 921, 992, 489, 398, 197, 366, 554, 685, 940, 111, 414, 76, 847, 90, 298, 914, 922, 775, 745, 651, 114, 461,
     62, 351, 244, 285, 984, 111, 198, 199, 549, 233, 106, 615, 158, 921, 280, 648, 249, 672, 545, 857, 80, 702, 69, 849, 444, 406, 559, 450, 646, 296,
     956, 220, 619, 479, 718, 727, 460, 647, 729, 602, 757, 670, 898, 607, 639, 821, 936, 735, 313, 37, 262, 519, 158, 352, 298, 237, 518, 766, 199, 311,
     17, 445, 824, 669, 282, 307, 744, 803, 600, 723, 449, 512, 587, 150, 56, 803, 159, 555, 681, 48, 839, 922, 399, 91, 517, 724, 68, 497, 182, 775,
     821, 29, 914, 536, 47, 234, 210, 650, 796, 440, 392, 348, 587, 431, 883, 553, 649, 298, 17, 966, 147, 807, 30, 88, 632, 216, 565, 645, 404, 559,
     977, 285, 963, 122, 294, 870, 901, 658, 238, 552, 708, 679, 162, 255, 584, 495, 975, 669, 848, 51, 219, 488, 190, 260, 950, 620, 683, 682, 244, 338,
     189, 604, 660, 570, 23, 451, 79, 703, 220, 258, 132, 261, 99, 562, 521, 742, 948, 997, 953, 573, 70, 833, 911, 67, 465, 686, 308, 165, 938, 26,
     876, 141, 260, 759, 299, 253, 718, 213, 550, 418, 468, 230, 429, 359, 391, 929, 522, 569, 142, 557, 998, 286, 855, 722, 53, 278, 180, 110, 401, 753,
     707, 721, 369, 119, 8, 302, 55, 740, 925, 667, 996, 215, 955, 30, 733, 259, 774, 702, 694, 919, 352, 708, 149, 215, 125, 730, 488, 983, 454, 343,
     411, 266, 480, 75, 498, 860, 731, 33, 817, 781, 97, 432, 595, 970, 860, 85, 989, 934, 809, 241, 920, 297, 905, 994, 926, 98, 637, 958, 64, 912,
     60, 683, 355, 15, 78, 159, 52, 184, 984, 955, 713, 885, 245, 962, 363, 832, 267, 512, 642, 606, 411, 366, 192, 249, 34, 493, 682, 971, 410, 81,
     828, 631, 243, 459, 200, 477, 559, 666, 467, 812, 61, 945, 732, 878, 204, 640, 199, 723, 961, 41, 123, 937, 944, 676, 685, 315, 716, 634, 537, 149,
     140, 556, 759, 202, 203, 868, 558, 924, 590, 995, 840, 117, 381, 319, 759, 571, 897, 629, 840, 703, 992, 43, 167, 526, 150, 729, 529, 464, 59, 187,
     730, 749, 42, 455, 17, 531, 615, 179, 943, 86, 172, 212, 500, 757, 654, 508, 828, 892, 138, 375, 211, 66, 521, 232, 120, 464, 361, 885, 328, 987,
     598, 408, 393, 229, 778, 514, 521, 510, 805, 343, 898, 307, 658, 240, 588, 263, 805, 511, 965, 60, 490, 909, 153, 737, 593, 706, 464, 837, 791, 379,
     601, 621, 386, 272, 269, 199, 444, 69, 484, 299, 611, 466, 743, 178, 410, 563, 826, 164, 922, 750, 149, 855, 319, 909, 343, 239, 116, 662, 660, 395,
     522, 864, 485, 499, 107, 178, 366, 275, 997, 99, 548, 154, 293, 764, 544, 352, 49, 948, 3, 177, 838, 838, 394, 888, 405, 238, 480, 195, 146, 433,
     748, 760, 50, 262, 265, 100, 661, 82, 584, 544, 383, 677, 805, 549, 973, 332, 215, 873, 361, 551, 326, 723, 698, 687, 259, 487, 694, 595, 184, 16,
     698, 459, 659, 306, 991, 366, 158, 79, 590, 758, 225, 783, 954, 540, 500, 393, 290, 693, 835, 916, 795, 283, 923, 514, 794, 988, 465, 605, 400, 891,
     874, 941, 246, 559, 834, 606, 647, 491, 328, 337, 541, 615, 974, 207, 969, 120, 597, 503, 974, 709, 244, 273, 778, 662, 184, 454, 438, 382, 103, 777,
     607, 286, 431, 102, 73, 412, 886, 126, 757, 740, 550, 35, 19, 767, 557, 550, 247, 322, 687, 271, 325, 910, 187, 833, 229, 622, 598, 373, 812, 339,
     518, 905, 786, 845, 784, 572, 887, 352, 757, 522, 661, 317, 116, 224, 877, 620, 965, 823, 953, 663, 597, 137, 34, 814, 964, 91, 702, 131, 443, 519,
     405, 301, 573, 452, 440, 588, 866, 825, 641, 10, 160, 222, 232, 665, 811, 314, 360, 671, 558, 261, 416, 436, 897, 659, 692, 819, 326, 619, 191, 631,
     773, 574, 219, 254, 911, 23, 116, 613, 361, 562, 398, 36, 617, 211, 871, 656, 84, 937, 747, 149, 32, 620, 838, 857, 681, 585, 149, 498, 362, 214,
     275, 159, 409, 906, 105, 784, 829, 141, 204, 396, 843, 876, 327, 785, 712, 462, 9, 288, 148, 63, 520, 393, 356, 855, 114, 331, 884, 853, 720, 170,
     278, 687, 815, 18, 162, 826, 24, 905, 490, 707, 760, 770, 366, 743, 231, 761, 470, 138, 425, 456, 302, 874, 562, 221, 716, 609, 632, 877, 904, 512,
     593, 404, 68, 578, 578, 633, 409, 955, 257, 228, 556, 746, 215, 79, 440, 949, 976, 215, 872, 463, 401, 658, 731, 499, 181, 298, 160, 395, 642, 208,
     763, 731, 783, 47, 568, 263, 573, 27, 424, 333, 742, 504, 786, 618, 569, 777, 84, 857, 243, 828, 187, 754, 700, 173, 101, 911, 809, 199, 892, 624,
     145, 993, 203, 397, 765, 417, 54, 749, 970, 651, 303, 895, 973, 475, 352, 114, 461, 25, 446, 666, 868, 132, 418, 700, 222, 822, 920, 580, 447, 229,
     407, 308, 387, 677, 95, 939, 448, 614, 191, 192, 159, 332, 975, 721, 851, 251, 149, 879, 77, 694, 211, 718, 822, 642, 674, 970, 977, 920, 561, 319,
     342, 312, 654, 851, 749, 79, 91, 511, 855, 272, 762, 804, 152, 895, 125, 430, 417, 177, 894, 593, 161, 935, 961, 474, 548, 840, 240, 532, 672, 820,
     134, 913, 537, 852, 50, 297, 80, 380, 635, 242, 553, 23, 753, 744, 359, 118, 741, 381, 4, 272, 176, 348, 553, 17, 894, 17, 637, 344, 107, 77,
     81, 383, 109, 918, 956, 903, 447, 3, 135, 668, 233, 491, 318, 560, 434, 571, 358, 953, 320, 749, 45, 263, 829, 436, 961, 735, 343, 965, 857, 145,
     751, 322, 642, 458, 237, 606, 81, 756, 788, 783, 664, 849, 154, 101, 88, 312, 113, 779, 91, 52, 155, 66, 32, 306, 94, 357, 419, 318, 48, 640,
     974, 802, 883, 37, 467, 456, 740, 966, 17, 755, 20, 178, 219, 192, 808, 384, 785, 953, 985, 866, 518, 113, 526, 175, 860, 882, 531, 615, 443, 198,
     943, 611, 831, 207, 423, 350, 799, 263, 31, 861, 245, 151, 819, 681, 925, 499, 184, 457, 496, 716, 740, 920, 953, 360, 965, 380, 852, 557, 251, 744,
     634, 607, 99, 378, 701, 691, 85, 528, 71, 215, 945, 789, 935, 366, 39, 757, 112, 969, 853, 963, 328, 342, 60, 502, 385, 219, 919, 192, 395, 466,
     751, 276, 273, 987, 795, 53, 351, 315, 344, 981, 751, 939, 843, 630, 197, 50, 322, 928, 523, 509, 233, 293, 31, 975, 648, 51, 649, 291, 392, 420,
     447, 693, 737, 204, 658, 575, 618, 359, 34, 739, 649, 340, 350, 452, 841, 434, 614, 476, 834, 308, 987, 602, 365, 245, 560, 718, 874, 557, 610, 274,
     372, 735, 375, 877, 932, 251, 891, 5, 699, 638, 621, 473, 823, 185, 625, 244, 701, 819, 574, 204, 247, 135, 287, 79, 950, 196, 12, 429, 766, 793,
     171, 338, 484, 304, 830, 994, 302, 145, 828, 174, 775, 367, 732, 230, 357, 272, 687, 547, 538, 60, 86, 158, 985, 517, 983, 294, 546, 479, 839, 271,
     892, 138, 36, 231, 792, 846, 819, 505, 402, 240, 118, 224, 551, 627, 681, 747, 755, 496, 772, 571, 150, 519, 481, 154, 750, 473, 11, 746, 452, 863,
     152, 390, 970, 250, 283, 62, 730, 331, 940, 37, 255, 465, 969, 575, 783, 24, 710, 650, 984, 864, 821, 736, 989, 476, 342, 401, 726, 342, 130, 65,
     759, 627, 715, 6, 812, 151, 597, 922, 617, 155, 550, 309, 283, 347, 260, 621, 725, 353, 773, 813, 896, 36, 870, 344, 484, 574, 994, 265, 49, 316,
     197, 354, 671, 526, 877, 263, 860, 135, 23, 329, 335, 359, 532, 959, 291, 352, 275, 547, 330, 895, 619, 106, 313, 483, 126, 896, 187, 377, 317, 886,
     741, 695, 117, 696, 214, 535, 161, 690, 893, 18, 830, 721, 88, 104, 794, 997, 535, 298, 656, 406, 46, 421, 414, 198, 525, 788, 909, 812, 72, 852,
     524, 215, 971, 151, 468, 322, 631, 175, 779, 697, 534, 833, 654, 65, 491, 659, 83, 264, 413, 275, 876, 224, 313, 516, 367, 626, 849, 98, 950, 932,
     702, 600, 67, 330, 943, 789, 84, 911, 202, 127, 376, 117, 945, 570, 423, 493, 670, 164, 417, 571, 778, 144, 862, 769, 630, 515, 858, 306, 648, 530,
     281, 545, 715, 958, 495, 919, 528, 729, 458, 279, 855, 450, 185, 203, 25, 905, 101, 133, 647, 231, 918, 582, 537, 910, 503, 342, 167, 772, 934, 191,
     13, 439, 695, 736, 400, 154, 85, 823, 549, 967, 957, 27, 607, 470, 966, 819, 999, 737, 216, 155, 887, 16, 153, 20, 587, 1, 805, 216, 643, 281,
     961, 250, 812, 638, 633, 808, 284, 160, 599, 772, 376, 673, 74, 758, 144, 782, 635, 6, 905, 733, 66, 140, 322, 190, 98, 563, 738, 506, 419, 424,
     946, 451, 105, 357, 619, 868, 712, 297, 406, 827, 180, 91, 380, 422, 221, 990, 942, 283, 193, 990, 775, 158, 736, 437, 375, 637, 944, 136, 799, 755,
     851, 374, 503, 835, 411, 702, 975, 760, 103, 636, 406, 785, 719, 327, 725, 970, 455, 350, 230, 333, 820, 218, 581, 538, 347, 481, 999, 953, 625, 451,
     348, 122, 776, 400, 959, 23, 945, 621, 531, 573, 256, 948, 368, 913, 333, 408, 395, 36, 129, 693, 30, 323, 70, 660, 940, 945, 950, 142, 898, 814,
     982, 199, 984, 336, 735, 61, 428, 983, 725, 676, 502, 683, 588, 846, 19, 657, 409, 31, 534, 152, 534, 627, 451, 898, 255, 504, 52, 778, 114, 250,
     395, 2, 435, 900, 935, 714, 140, 294, 11, 726, 693, 453, 929, 741, 687, 332, 258, 340, 951, 916, 409, 271, 651, 389, 636, 470, 195, 520, 972, 50,
     356, 599, 699, 867, 831, 184, 961, 57, 857, 566, 845, 778, 334, 524, 175, 244, 475, 891, 601, 976, 981, 464, 933, 810, 66, 284, 964, 508, 764, 683,
     289, 933, 507, 892, 730, 571, 983, 170, 779, 233, 27, 546, 526, 584, 454, 407, 118, 394, 498, 544, 210, 108, 184, 641, 555, 592, 810, 396, 528, 746,
     37, 957, 310, 634, 96, 815, 310, 446, 661, 688, 496, 602, 882, 496, 755, 184, 136, 540, 587, 438, 897, 934, 973, 448, 389, 399, 444, 195, 17, 82,
     567, 489, 861, 34, 642, 295, 560, 446, 435, 868, 662, 238, 628, 790, 490, 774, 318, 113, 138, 672, 42, 988, 160, 745, 168, 627, 701, 465, 711, 810,
     613, 250, 299, 329, 797, 62, 569, 140, 112, 637, 381, 768, 831, 490, 960, 929, 683, 704, 141, 23, 876, 718, 254, 352, 401, 336, 621, 565, 69, 262,
     938, 967, 599, 217, 164, 303, 617, 946, 821, 775, 189, 644, 816, 997, 969, 965, 492, 909, 894, 446, 955, 276, 880, 726, 805, 775, 224, 871, 267, 232,
     270, 256, 273, 194, 483, 949, 955, 938, 611, 135, 326, 21, 267, 951, 777, 529, 238, 165, 201, 738, 676, 582, 381, 395, 774, 829, 369, 36, 463, 657,
     552, 499, 389, 288, 137, 363, 180, 476, 75, 842, 965, 911, 604, 972, 169, 947, 814, 20, 614, 736, 942, 0, 304, 437, 420, 577, 785, 491, 275, 831,
     769, 860, 333, 582, 509, 895, 412, 38, 196, 1, 393, 189, 888, 502, 166, 941, 443, 117, 781, 682, 281, 390, 816, 811, 115, 310, 725, 766, 628, 117,
     731, 457, 164, 78, 171, 750, 452, 119, 61, 902, 409, 371, 697, 39, 574, 306, 670, 309, 685, 747, 90, 480, 623, 369, 38, 662, 795, 76, 264, 286,
     976, 710, 654, 930, 377, 523, 924, 391, 780, 309, 739, 745, 0, 876, 452, 224, 410, 448, 735, 74, 47, 220, 900, 626, 723, 549, 592, 644, 98, 530,
     585, 565, 819, 225, 152, 857, 480, 235, 461, 263, 751, 483, 410, 700, 681, 798, 194, 246, 461, 465, 416, 741, 829, 500, 0, 224, 604, 503, 182, 691,
     436, 211, 645, 550, 790, 230, 152, 195, 753, 948, 147, 742, 859, 675, 632, 481, 484, 924, 212, 10, 486, 315, 279, 275, 6, 132, 490, 110, 16, 552,
     448, 578, 357, 676, 683, 825, 49, 2, 773, 64, 539, 328, 470, 965, 539, 924, 11, 737, 522, 262, 452, 662, 13, 502, 897, 847, 941, 607, 367, 178,
     927, 849, 278, 810, 279, 655, 796, 211, 745, 998, 521, 983, 90, 664, 988, 292, 373, 62, 720, 533, 231, 963, 201, 131, 279, 881, 344, 650, 995, 773,
     224, 655, 573, 459, 133, 692, 541, 598, 957, 882, 715, 972, 553, 861, 455, 867, 52, 982, 892, 697, 507, 147, 26, 181, 752, 779, 803, 579, 476, 787,
     13, 488, 854, 347, 260, 456, 934, 329, 338, 634, 768, 779, 464, 759, 36, 492, 229, 311, 686, 866, 214, 178, 877, 528, 589, 967, 137, 299, 351, 613,
     81, 780, 947, 623, 111, 131, 63, 35, 915, 502, 33, 869, 855, 585, 789, 609, 624, 67, 469, 233, 141, 643, 982, 828, 339, 836, 571, 820, 311, 254,
     911, 398, 175, 233, 788, 17, 994, 678, 858, 178, 37, 96, 743, 327, 102, 623, 506, 771, 217, 23, 495, 46, 554, 78, 461, 863, 877, 910, 956, 516,
     519, 909, 238, 99, 166, 275, 887, 790, 171, 521, 777, 594, 728, 642, 928, 436, 417, 143, 759, 767, 474, 935, 585, 437, 469, 431, 586, 470, 20, 171,
     838, 194, 577, 589, 932, 526, 12, 687, 997, 760, 52, 199, 398, 686, 817, 463, 989, 790, 420, 856, 888, 836, 24, 140, 528, 341, 61, 579, 558, 893,
     737, 226, 883, 40, 340, 903, 872, 474, 234, 246, 806, 979, 243, 545, 623, 430, 175, 377, 678, 1, 915, 941, 508, 722, 8, 949, 922, 286, 381, 415,
     61, 607, 476, 864, 957, 292, 145, 941, 562, 415, 676, 718, 719, 334, 287, 674, 260, 453, 839, 88, 554, 306, 814, 243, 428, 243, 491, 279, 216, 605,
     172, 839, 677, 485, 239, 964, 243, 956, 274, 307, 102, 52, 947, 517, 778, 941, 24, 146, 225, 259, 919, 851, 36, 741, 386, 921, 469, 693, 955, 440,
     638, 275, 698, 868, 612, 391, 552, 527, 600, 544, 325, 645, 815, 209, 109, 493, 99, 573, 582, 820, 604, 18, 941, 648, 690, 954, 248, 740, 646, 868,
     414, 533, 336, 57, 410, 235, 921, 904, 942, 746, 944, 329, 395, 856, 816, 98, 249, 237, 89, 904, 562, 884, 899, 741, 938, 451, 695, 258, 628, 765,
     901, 846, 453, 808, 799, 354, 835, 9, 850, 878, 288, 471, 572, 928, 926, 474, 558, 611, 733, 861, 580, 571, 414, 466, 450, 401, 329, 285, 269, 722,
     664, 659, 168, 22, 624, 165, 886, 117, 510, 447, 71, 22, 698, 312, 738, 467, 80, 167, 763, 112, 492, 334, 45, 305, 80, 477, 110, 829, 365, 130,
     430, 349, 808, 652, 201, 144, 430, 922, 603, 581, 689, 105, 642, 713, 214, 96, 555, 359, 939, 256, 638, 574, 175, 276, 523, 676, 518, 401, 468, 245,
     868, 581, 223, 669, 1, 935, 414, 69, 247, 66, 677, 780, 387, 659, 302, 233, 510, 769, 82, 178, 769, 849, 83, 868, 34, 142, 267, 114, 914, 217,
     550, 336, 704, 782, 915, 760, 224, 227, 118, 706, 471, 404, 561, 378, 385, 807, 104, 65, 37, 267, 117, 827, 631, 493, 883, 249, 990, 253, 628, 718,
     200, 338, 268, 972, 211, 604, 326, 455, 163, 861, 867, 695, 815, 545, 239, 214, 359, 265, 875, 619, 730, 939, 575, 23, 342, 982, 523, 771, 295, 855,
     19, 143, 436, 742, 977, 69, 500, 646, 457, 347, 281, 374, 776, 706, 915, 229, 730, 430, 443, 920, 498, 752, 887, 48, 730, 12, 400, 530, 847, 224,
     789, 440, 990, 954, 882, 152, 470, 875, 352, 702, 673, 971, 956, 773, 769, 713, 776, 540, 877, 854, 378, 279, 352, 438, 695, 273, 953, 517, 308, 304,
     653, 612, 774, 116, 902, 583, 342, 435, 992, 429, 999, 975, 921, 882, 496, 716, 686, 924, 726, 281, 722, 873, 621, 201, 8, 388, 577, 373, 808, 976,
     973, 150, 389, 822, 746, 56, 410, 633, 989, 436, 47, 26, 544, 802, 858, 987, 405, 922, 334, 444, 427, 573, 526, 856, 593, 130, 469, 243, 734, 952,
     485, 296, 496, 836, 690, 332, 810, 559, 144, 790, 448, 494, 414, 482, 3, 267, 12, 192, 399, 347, 337, 217, 116, 763, 194, 189, 226, 915, 788, 151,
     105, 953, 871, 843, 913, 714, 469, 808, 866, 936, 87, 332, 195, 792, 196, 143, 205, 1, 377, 564, 543, 658, 406, 503, 149, 778, 897, 348, 757, 807,
     106, 725, 987, 439, 81, 352, 178, 771, 340, 412, 670, 700, 922, 304, 803, 727, 730, 32, 92, 198, 649, 729, 735, 679, 497, 627, 869, 510, 668, 739,
     528, 292, 678, 419, 159, 281, 660, 969, 623, 669, 601, 205, 885, 666, 527, 97, 645, 966, 112, 511, 939, 392, 993, 435, 515, 307, 412, 429, 449, 532,
     804, 448, 974, 233, 708, 723, 659, 734, 587, 83, 980, 54, 122, 947, 982, 883, 293, 275, 481, 603, 741, 121, 885, 982, 271, 260, 389, 890, 356, 619,
     387, 805, 712, 233, 12, 542, 254, 780, 407, 334, 437, 546, 113, 400, 773, 729, 296, 111, 714, 940, 315, 45, 987, 697, 111, 310, 549, 214, 225, 134,
     39, 194, 78, 954, 973, 873, 35, 708, 220, 551, 499, 242, 219, 931, 451, 7, 174, 477, 71, 461, 703, 404, 111, 947, 395, 129, 436, 333, 573, 30,
     529, 807, 255, 70, 279, 832, 80, 602, 317, 723, 52, 472, 321, 159, 519, 174, 686, 268, 790, 28, 929, 605, 778, 589, 78, 154, 624, 232, 930, 556,
     284, 568, 342, 815, 215, 183, 512, 724, 715, 193, 182, 556, 672, 907, 178, 203, 399, 307, 530, 292, 665, 620, 40, 45, 472, 769, 811, 383, 280, 212,
     319, 370, 367, 947, 239, 575, 898, 987, 845, 934, 977, 71, 171, 802, 468, 599, 366, 506, 981, 184, 201, 633, 629, 132, 349, 877, 193, 590, 642, 926,
     515, 315, 251, 205, 111, 134, 691, 340, 384, 367, 132, 653, 973, 174, 883, 507, 37, 961, 35, 284, 43, 720, 405, 704, 305, 408, 586, 5, 225, 503,
     187, 571, 727, 182, 747, 902, 155, 744, 681, 367, 592, 16, 791, 923, 716, 383, 383, 579, 705, 36, 357, 692, 91, 125, 717, 681, 582, 701, 73, 844,
     753, 685, 653, 344, 783, 816, 881, 876, 436, 232, 712, 303, 620, 170, 957, 906, 549, 174, 228, 545, 340, 968, 194, 335, 594, 867, 821, 333, 515, 298,
     292, 419, 841, 147, 141, 612, 608, 658, 193, 737, 709, 595, 116, 474, 89, 480, 553, 300, 214, 76, 351, 662, 783, 989, 638, 68, 379, 410, 558, 477,
     158, 34, 442, 878, 994, 807, 419, 870, 479, 553, 795, 20, 709, 644, 811, 989, 506, 844, 751, 880, 367, 236, 590, 891, 152, 374, 765, 287, 586, 268,
     744, 98, 217, 54, 331, 137, 617, 494, 975, 924, 250, 566, 190, 163, 513, 191, 357, 191, 721, 859, 482, 532, 21, 581, 351, 341, 724, 245, 306, 892,
     574, 208, 874, 631, 176, 87, 62, 625, 177, 532, 773, 858, 270, 600, 827, 640, 260, 139, 824, 506, 879, 411, 448, 5, 222, 23, 94, 980, 655, 363,
     167, 826, 895, 446, 312, 364, 572, 32, 87, 171, 418, 132, 963, 52, 938, 720, 275, 445, 252, 404, 734, 683, 236, 222, 125, 401, 261, 864, 518, 959,
     784, 618, 596, 661, 590, 304, 15, 801, 963, 526, 591, 770, 34, 308, 723, 961, 568, 894, 533, 911, 567, 596, 322, 156, 37, 193, 262, 691, 296, 341,
     365, 842, 115, 406, 53, 438, 946, 306, 34, 260, 458, 600, 976, 586, 27, 130, 592, 974, 268, 710, 849, 370, 707, 610, 488, 679, 197, 921, 601, 460,
     511, 780, 561, 304, 517, 518, 675, 248, 872, 148, 592, 323, 581, 781, 231, 829, 236, 272, 939, 865, 270, 89, 421, 4, 270, 516, 44, 599, 149, 145,
     378, 4, 310, 297, 398, 357, 866, 690, 739, 394, 643, 941, 732, 230, 987, 896, 804, 29, 192, 342, 175, 884, 380, 270, 771, 604, 776, 553, 615, 278,
     69, 792, 57, 456, 425, 324, 649, 48, 113, 856, 487, 756, 160, 18, 170, 914, 126, 376, 117, 822, 861, 872, 929, 771, 743, 49, 346, 690, 789, 707,
     532, 198, 401, 162, 786, 909, 538, 18, 772, 872, 431, 249, 284, 887, 504, 335, 803, 744, 638, 449, 742, 603, 181, 897, 185, 259, 872, 878, 727, 930,
     396, 946, 643, 192, 96, 102, 139, 3, 471, 761, 271, 59, 56, 798, 185, 115, 469, 703, 941, 178, 187, 467, 163, 730, 189, 73, 946, 993, 310, 505,
     357, 732, 891, 176, 714, 85, 723, 808, 519, 458, 169, 752, 26, 516, 722, 484, 742, 177, 822, 46, 267, 954, 305, 498, 661, 959, 391, 227, 293, 724,
     951, 170, 232, 276, 260, 685, 55, 912, 951, 205, 350, 728, 507, 247, 12, 385, 970, 305, 966, 438, 955, 741, 70, 346, 678, 221, 303, 495, 131, 550,
     30, 852, 181, 395, 721, 267, 869, 405, 78, 707, 4, 468, 481, 443, 883, 6, 476, 994, 937, 30, 694, 709, 211, 92, 907, 190, 607, 399, 435, 837,
     769, 136, 201, 570, 621, 294, 312, 647, 247, 215, 204, 521, 409, 18, 937, 959, 378, 400, 727, 948, 824, 550, 355, 355, 977, 59, 656, 972, 38, 195,
     124, 345, 272, 825, 419, 152, 872, 224, 164, 964, 640, 470, 68, 609, 773, 469, 421, 107, 857, 719, 134, 553, 193, 369, 580, 619, 630, 465, 606, 645,
     993, 163, 310, 783, 899, 412, 511, 328, 154, 95, 254, 282, 874, 719, 799, 814, 79, 607, 967, 464, 998, 561, 766, 953, 440, 126, 881, 781, 479, 210,
     462, 243, 986, 961, 680, 65, 301, 669, 270, 929, 294, 253, 384, 748, 882, 578, 97, 103, 57, 312, 790, 622, 287, 98, 138, 76, 727, 530, 776, 879,
     966, 279, 389, 802, 296, 64, 823, 356, 207, 398, 131, 145, 792, 979, 365, 202, 482, 629, 649, 124, 155, 846, 281, 452, 86, 530, 143, 924, 612, 286,
     705, 530, 881, 303, 153, 109, 445, 118, 901, 163, 582, 491, 89, 497, 9, 11, 732, 205, 13, 258, 798, 169, 686, 622, 507, 522, 437, 371, 913, 164,
     110, 494, 663, 343, 603, 700, 909, 916, 966, 330, 273, 740, 505, 0, 712, 370, 89, 390, 275, 826, 625, 14, 931, 440, 282, 306, 310, 657, 501, 993,
     564, 653, 781, 360, 318, 833, 120, 266, 902, 872, 197, 461, 212, 784, 788, 476, 664, 634, 888, 592, 994, 476, 342, 105, 976, 910, 690, 715, 160, 224,
     875, 525, 717, 763, 806, 407, 410, 895, 584, 280, 999, 195, 601, 690, 174, 790, 748, 455, 613, 121, 698, 715, 277, 603, 807, 753, 350, 113, 420, 931,
     940, 45, 499, 267, 677, 26, 411, 981, 65, 844, 915, 33, 501, 675, 572, 931, 834, 366, 879, 283, 936, 796, 927, 41, 750, 634, 380, 817, 892, 237,
     599, 146, 547, 568, 798, 896, 555, 50, 155, 828, 647, 235, 335, 390, 374, 697, 69, 961, 30, 612, 564, 373, 245, 708, 898, 896, 27, 791, 284, 200,
     69, 925, 302, 747, 244, 813, 952, 875, 611, 505, 210, 617, 276, 555, 405, 176, 654, 604, 814, 957, 570, 127, 346, 966, 274, 139, 769, 128, 171, 129,
     427, 490, 432, 108, 763, 555, 290, 508, 727, 999, 740, 60, 845, 732, 967, 765, 787, 488, 85, 332, 587, 423, 901, 337, 897, 333, 797, 357, 14, 941,
     857, 390, 161, 235, 180, 99, 511, 343, 292, 953, 294, 64, 494, 849, 168, 396, 178, 761, 343, 663, 997, 800, 28, 953, 429, 277, 478, 341, 637, 552,
     593, 336, 283, 651, 992, 337, 596, 549, 296, 880, 731, 628, 554, 80, 166, 771, 957, 802, 376, 264, 842, 177, 80, 169, 343, 165, 213, 512, 106, 717,
     267, 628, 943, 206, 121, 556, 182, 350, 401, 281, 903, 292, 219, 118, 899, 629, 42, 866, 684, 294, 296, 678, 642, 266, 97, 760, 206, 226, 546, 154,
     558, 967, 679, 846, 819, 224, 878, 839, 344, 914, 277, 305, 605, 462, 613, 180, 955, 830, 308, 680, 936, 629, 463, 600, 981, 464, 110, 158, 872, 417,
     269, 9, 605, 717, 813, 283, 672, 297, 238, 875, 153, 769, 927, 187, 798, 534, 839, 94, 809, 223, 669, 589, 64, 577, 840, 302, 349, 481, 999, 74,
     751, 555, 317, 913, 489, 460, 136, 216, 672, 423, 552, 643, 995, 615, 720, 82, 890, 580, 599, 53, 320, 371, 131, 308, 2, 445, 393, 473, 264, 745,
     780, 994, 726, 82, 806, 875, 740, 872, 810, 572, 955, 335, 807, 245, 262, 2, 478, 630, 168, 23, 866, 471, 257, 249, 499, 221, 601, 39, 537, 531,
     469, 504, 234, 410, 994, 665, 643, 679, 102, 229, 189, 260, 494, 542, 923, 643, 469, 901, 857, 481, 737, 332, 443, 346, 653, 100, 766, 434, 451, 332,
     994, 361, 521, 253, 395, 412, 110, 95, 400, 670, 379, 962, 937, 791, 771, 469, 883, 195, 465, 767, 141, 463, 385, 354, 188, 948, 949, 207, 532, 300,
     394, 232, 922, 281, 379, 675, 885, 807, 616, 435, 694, 776, 486, 832, 520, 268, 209, 514, 291, 803, 519, 625, 350, 232, 459, 322, 254, 215, 295, 460,
     18, 369, 678, 387, 33, 444, 625, 838, 644, 851, 175, 233, 167, 253, 935, 459, 982, 4, 597, 210, 560, 438, 617, 663, 414, 909, 72, 678, 32, 275,
     775, 81, 969, 707, 179, 476, 734, 965, 326, 723, 841, 965, 56, 479, 292, 477, 412, 664, 899, 329, 281, 625, 125, 530, 602, 366, 479, 39, 694, 698,
     526, 734, 515, 460, 747, 374, 465, 273, 690, 908, 62, 48, 757, 121, 904, 235, 583, 713, 615, 857, 44, 73, 581, 498, 564, 966, 883, 824, 677, 281,
     631, 482, 243, 832, 300, 479, 550, 781, 143, 439, 144, 219, 624, 883, 852, 35, 392, 537, 133, 119, 139, 780, 204, 703, 85, 681, 682, 215, 121, 584,
     545, 850, 343, 784, 774, 42, 67, 653, 895, 142, 891, 976, 541, 763, 14, 981, 588, 158, 148, 615, 5, 829, 142, 190, 376, 994, 711, 44, 85, 739,
     344, 327, 586, 443, 222, 747, 65, 161, 874, 995, 795, 311, 156, 532, 278, 497, 760, 407, 776, 688, 871, 844, 171, 998, 983, 302, 229, 745, 481, 648,
     659, 619, 95, 4, 861, 682, 437, 238, 206, 852, 305, 39, 248, 280, 631, 264, 221, 278, 341, 854, 794, 717, 765, 443, 943, 459, 764, 816, 277, 633,
     220, 631, 566, 132, 270, 696, 341, 362, 620, 211, 222, 194, 852, 512, 637, 285, 769, 64, 260, 265, 399, 172, 213, 996, 956, 279, 705, 995, 67, 801,
     176, 942, 871, 112, 357, 9, 865, 971, 983, 187, 203, 142, 387, 872, 154, 491, 903, 805, 878, 331, 851, 555, 298, 849, 774, 277, 296, 878, 276, 172,
     340, 918, 403, 582, 321, 972, 485, 906, 506, 976, 837, 281, 582, 348, 229, 736, 763, 757, 606, 861, 792, 595, 884, 871, 942, 877, 737, 268, 873, 128,
     371, 913, 902, 809, 284, 126, 816, 404, 900, 409, 434, 364, 363, 260, 633, 528, 537, 986, 383, 241, 989, 636, 84, 626, 41, 927, 535, 522, 223, 911,
     910, 737, 524, 502, 267, 401, 460, 719, 961, 99, 73, 980, 824, 252, 170, 873, 264, 466, 875, 306, 82, 539, 745, 441, 772, 368, 260, 229, 403, 453,
     456, 775, 801, 212, 509, 661, 384, 683, 733, 645, 62, 290, 197, 481, 437, 843, 926, 576, 442, 545, 235, 428, 905, 932, 45, 990, 889, 670, 285, 747,
     873, 492, 786, 865, 560, 318, 526, 967, 37, 269, 343, 24, 242, 729, 307, 345, 771, 719, 126, 835, 487, 538, 561, 835, 236, 511, 611, 63, 893, 327,
     639, 827, 839, 272, 411, 243, 796, 517, 280, 726, 472, 872, 361, 403, 208, 745, 435, 456, 314, 374, 313, 109, 680, 931, 999, 1, 763, 264, 143, 514,
     117, 317, 791, 527, 788, 72, 136, 649, 154, 338, 263, 729, 526, 673, 440, 399, 790, 289, 611, 414, 461, 394, 521, 767, 27, 532, 126, 74, 342, 275,
     442, 865, 450, 439, 577, 348, 409, 114, 746, 712, 534, 719, 163, 156, 38, 257, 224, 232, 109, 316, 398, 284, 679, 233, 331, 220, 421, 693, 188, 534,
     356, 875, 89, 971, 520, 345, 862, 916, 800, 698, 312, 484, 743, 775, 670, 344, 271, 408, 229, 11, 193, 884, 116, 124, 728, 295, 374, 912, 413, 24,
     364, 912, 490, 474, 521, 626, 152, 753, 885, 349, 194, 893, 875, 830, 484, 759, 419, 116, 54, 797, 794, 616, 287, 982, 294, 540, 58, 325, 181, 423,
     925, 76, 734, 112, 372, 355, 645, 615, 574, 981, 950, 537, 311, 497, 779, 287, 420, 203, 646, 658, 826, 229, 917, 758, 241, 337, 177, 617, 237, 443,
     855, 233, 731, 78, 791, 531, 381, 509, 827, 314, 325, 829, 593, 268, 80, 971, 207, 485, 562, 425, 584, 614, 408, 248, 531, 26, 140, 178, 74, 514,
     744, 240, 921, 789, 880, 604, 278, 65, 918, 873, 319, 49, 196, 509, 457, 733, 696, 435, 84, 373, 678, 613, 244, 783, 196, 544, 311, 109, 768, 676,
     687, 805, 143, 322, 599, 752, 856, 577, 804, 763, 193, 81, 344, 971, 54, 303, 550, 721, 371, 565, 38, 76, 345, 302, 113, 227, 303, 253, 78, 611,
     684, 433, 904, 493, 259, 470, 925, 21, 696, 52, 823, 269, 755, 999, 696, 636, 257, 455, 753, 177, 548, 837, 751, 118, 651, 485, 226, 469, 903, 994,
     158, 154, 404, 133, 705, 630, 133, 4, 959, 931, 412, 208, 276, 437, 526, 790, 658, 967, 34, 607, 34, 31, 939, 776, 12, 421, 286, 624, 76, 419,
     780, 433, 379, 90, 787, 176, 249, 932, 812, 202, 48, 626, 494, 383, 875, 647, 543, 332, 546, 427, 0, 500, 130, 205, 422, 786, 555, 276, 976, 310,
     420, 784, 694, 291, 52, 522, 575, 503, 516, 920, 770, 465, 895, 702, 862, 271, 439, 736, 329, 648, 190, 648, 75, 554, 693, 243, 796, 495, 470, 155,
     415, 386, 767, 791, 859, 508, 390, 676, 384, 683, 93, 43, 130, 953, 132, 175, 95, 266, 772, 524, 79, 374, 496, 8, 978, 238, 956, 762, 255, 109,
     591, 472, 980, 980, 774, 926, 902, 369, 623, 943, 416, 620, 105, 135, 143, 707, 342, 193, 155, 496, 741, 654, 509, 81, 160, 791, 546, 863, 220, 476,
     763, 834, 866, 168, 227, 659, 676, 705, 177, 502, 687, 765, 773, 208, 23, 636, 815, 819, 845, 286, 428, 226, 355, 777, 240, 700, 678, 705, 382, 425,
     754, 729, 309, 275, 856, 540, 401, 690, 506, 95, 756, 774, 573, 835, 515, 988, 991, 737, 881, 447, 417, 553, 288, 798, 393, 152, 528, 563, 853, 928,
     406, 477, 664, 801, 930, 617, 980, 339, 932, 384, 510, 950, 347, 489, 962, 462, 858, 872, 158, 755, 127, 778, 1, 753, 294, 437, 665, 589, 990, 623,
     79, 646, 911, 799, 537, 89, 458, 499, 167, 570, 493, 262, 679, 828, 68, 984, 714, 323, 67, 213, 876, 824, 741, 824, 447, 498, 795, 316, 470, 760,
     23, 563, 2, 825, 443, 2, 89, 669, 601, 309, 407, 232, 99, 972, 652, 346, 460, 802, 284, 969, 221, 15, 289, 831, 141, 589, 798, 143, 921, 228,
     45, 421, 132, 928, 456, 340, 662, 211, 260, 184, 105, 248, 813, 676, 951, 901, 913, 702, 397, 840, 567, 974, 774, 669, 661, 94, 752, 428, 461, 686,
     69, 858, 75, 621, 972, 384, 307, 456, 793, 863, 65, 689, 29, 503, 234, 145, 608, 543, 918, 383, 768, 226, 206, 78, 619, 260, 346, 936, 799, 874,
     268, 163, 478, 354, 386, 941, 595, 772, 331, 578, 51, 691, 47, 879, 593, 60, 942, 43, 558, 848, 520, 6, 528, 779, 804, 631, 552, 694, 778, 916,
     417, 533, 13, 694, 795, 471, 822, 173, 994, 759, 580, 463, 371, 125, 517, 613, 595, 374, 911, 88, 777, 3, 586, 679, 427, 18, 756, 700, 882, 664,
     332, 312, 960, 27, 775, 478, 340, 83, 793, 25, 383, 809, 641, 777, 903, 777, 812, 877, 566, 706, 737, 122, 97, 246, 27, 532, 330, 409, 118, 585,
     721, 135, 926, 611, 930, 47, 419, 915, 634, 380, 828, 706, 446, 167, 222, 806, 782, 772, 147, 327, 957, 356, 775, 408, 85, 137, 133, 29, 91, 252,
     752, 895, 221, 924, 666, 212, 121, 43, 184, 502, 819, 93, 219, 816, 366, 809, 748, 166, 206, 528, 839, 795, 824, 92, 740, 863, 199, 957, 235, 163,
     234, 558, 428, 237, 932, 758, 288, 235, 976, 959, 282, 777, 793, 379, 467, 23, 92, 771, 5, 18, 675, 125, 622, 969, 910, 66, 866, 552, 498, 625,
     145, 563, 660, 62, 649, 185, 604, 731, 981, 747, 321, 189, 152, 147, 137, 798, 641, 628, 596, 889, 647, 602, 136, 619, 305, 25, 29, 781, 839, 328,
     506, 802, 498, 869, 632, 123, 87, 198, 596, 511, 438, 901, 437, 819, 709, 628, 925, 772, 663, 225, 115, 858, 871, 568, 339, 348, 68, 355, 138, 385,
     469, 187, 476, 369, 376, 354, 809, 763, 641, 242, 136, 186, 6, 942, 481, 914, 563, 806, 142, 643, 669, 346, 324, 96, 208, 528, 987, 786, 607, 790,
     196, 896, 621, 543, 987, 439, 427, 848, 53, 619, 178, 302, 369, 743, 59, 652, 852, 613, 655, 42, 654, 222, 442, 412, 571, 126, 551, 813, 757, 87,
     904, 689, 44, 844, 348, 21, 12, 233, 722, 987, 177, 653, 467, 254, 24, 555, 596, 583, 462, 614, 662, 450, 621, 359, 976, 576, 622, 546, 897, 841,
     713, 465, 330, 863, 977, 503, 397, 128, 652, 169, 665, 986, 14, 231, 603, 225, 195, 23, 528, 62, 146, 248, 440, 858, 297, 434, 604, 702, 103, 776,
     517, 446, 281, 357, 655, 447, 917, 34, 631, 239, 643, 773, 330, 562, 412, 293, 319, 611, 122, 177, 79, 525, 988, 210, 890, 875, 152, 90, 119, 467,
     874, 911, 702, 889, 443, 96, 737, 645, 956, 214, 815, 549, 29, 122, 108, 822, 29, 523, 462, 499, 166, 740, 389, 687, 39, 326, 331, 171, 973, 808,
     532, 959, 714, 843, 306, 392, 66, 999, 341, 549, 429, 932, 158, 340, 142, 19, 702, 486, 406, 562, 427, 13, 560, 251, 99, 629, 826, 677, 454, 404,
     808, 355, 873, 618, 476, 206, 529, 396, 924, 433, 884, 177, 553, 332, 448, 326, 67, 181, 397, 353, 641, 819, 678, 1, 938, 861, 827, 253, 320, 565,
     54, 612, 296, 720, 427, 748, 247, 338, 320, 688, 889, 91, 834, 940, 513, 912, 48, 887, 217, 781, 739, 446, 458, 830, 364, 502, 967, 838, 431, 394,
     738, 68, 512, 649, 488, 362, 332, 240, 16, 407, 704, 538, 787, 366, 2, 533, 958, 776, 125, 654, 716, 383, 306, 161, 547, 907, 22, 484, 955, 730,
     804, 720, 837, 190, 694, 676, 618, 86, 247, 143, 665, 64, 360, 816, 761, 843, 792, 499, 528, 846, 376, 823, 746, 425, 343, 658, 70, 504, 91, 924,
     906, 837, 302, 231, 490, 109, 671, 839, 45, 567, 480, 882, 283, 830, 791, 83, 448, 14, 998, 479, 12, 536, 201, 117, 413, 535, 797, 724, 648, 224,
     435, 94, 477, 723, 149, 230, 1, 721, 710, 641, 809, 740, 165, 423, 841, 472, 348, 181, 256, 926, 157, 117, 537, 737, 236, 249, 928, 879, 413, 670,
     923, 394, 88, 596, 479, 774, 6, 905, 662, 762, 287, 37, 850, 570, 297, 565, 790, 822, 517, 407, 300, 984, 552, 54, 784, 792, 4, 662, 107, 387,
     414, 547, 729, 368, 435, 466, 985, 272, 2, 291, 637, 902, 665, 142, 446, 944, 510, 601, 488, 618, 666, 248, 893, 941, 97, 675, 982, 14, 539, 313,
     366, 552, 661, 611, 816, 118, 484, 858, 573, 288, 367, 139, 492, 298, 649, 71, 659, 27, 168, 222, 329, 550, 864, 310, 893, 148, 737, 903, 71, 819,
     508, 594, 314, 493, 787, 265, 809, 3, 507, 969, 7, 682, 542, 105, 931, 429, 997, 39, 400, 515, 915, 404, 818, 517, 672, 366, 4, 929, 908, 6,
     66, 957, 981, 464, 967, 104, 317, 525, 186, 849, 286, 331, 662, 312, 827, 862, 599, 197, 921, 805, 782, 278, 332, 839, 818, 948, 534, 432, 480, 886,
     468, 746, 201, 819, 510, 295, 309, 277, 706, 132, 885, 158, 756, 796, 816, 886, 486, 40, 218, 824, 456, 73, 656, 859, 223, 150, 638, 560, 869, 407,
     487, 307, 618, 285, 398, 4, 387, 956, 498, 785, 991, 103, 497, 495, 955, 637, 212, 187, 992, 474, 738, 854, 292, 919, 541, 703, 205, 830, 503, 224,
     883, 865, 258, 383, 55, 171, 214, 456, 524, 558, 815, 453, 295, 213, 67, 63, 955, 613, 600, 845, 945, 796, 771, 546, 249, 544, 731, 6, 514, 795,
     884, 899, 419, 691, 883, 706, 171, 353, 600, 958, 452, 19, 976, 251, 202, 243, 547, 146, 960, 122, 28, 686, 52, 315, 906, 359, 307, 131, 666, 170,
     9, 312, 908, 918, 70, 803, 770, 273, 701, 454, 71, 829, 800, 503, 727, 921, 733, 596, 431, 914, 237, 174, 931, 478, 832, 480, 715, 223, 224, 709,
     615, 326, 737, 844, 400, 965, 215, 312, 648, 591, 137, 788, 164, 473, 314, 698, 667, 694, 552, 941, 746, 902, 732, 100, 35, 725, 575, 858, 252, 816,
     782, 617, 150, 589, 973, 798, 903, 791, 152, 399, 38, 712, 821, 285, 660, 857, 354, 181, 13, 375, 254, 617, 320, 437, 612, 349, 10, 404, 825, 564,
     670, 646, 472, 238, 915, 85, 488, 679, 714, 500, 864, 831, 417, 897, 539, 960, 807, 144, 301, 526, 432, 954, 104, 641, 660, 224, 82, 922, 318, 750,
     447, 704, 17, 884, 59, 741, 934, 110, 167, 740, 427, 539, 130, 778, 82, 448, 807, 296, 360, 901, 268, 277, 950, 243, 598, 276, 200, 102, 186, 374,
     111, 279, 609, 477, 577, 94, 163, 954, 759, 348, 422, 653, 135, 558, 830, 618, 404, 749, 538, 652, 908, 779, 966, 647, 792, 560, 967, 409, 679, 314,
     389, 168, 267, 318, 893, 741, 622, 474, 232, 589, 350, 882, 771, 807, 35, 517, 999, 81, 613, 903, 189, 742, 448, 335, 965, 409, 141, 489, 719, 582,
     253, 731, 535, 839, 333, 899, 507, 808, 851, 428, 408, 599, 653, 286, 556, 470, 873, 752, 756, 666, 824, 585, 95, 361, 685, 501, 877, 679, 412, 397,
     277, 436, 95, 511, 118, 597, 307, 410, 888, 990, 746, 544, 444, 767, 57, 607, 352, 299, 314, 367, 491, 180, 659, 250, 197, 515, 343, 51, 244, 855,
     497, 388, 624, 97, 936, 889, 771, 400, 147, 972, 975, 89, 990, 227, 594, 150, 490, 347, 519, 681, 271, 356, 375, 19, 550, 717, 50, 812, 82, 157,
     514, 218, 219, 609, 899, 151, 197, 701, 969, 957, 572, 588, 892, 893, 14, 72, 410, 765, 192, 63, 392, 615, 222, 59, 300, 823, 884, 329, 116, 788,
     361, 181, 742, 568, 451, 37, 439, 163, 614, 393, 631, 198, 52, 474, 997, 576, 46, 216, 814, 527, 31, 702, 58, 84, 174, 164, 582, 881, 51, 581,
     75, 342, 144, 548, 739, 280, 988, 416, 315, 983, 748, 954, 658, 397, 76, 912, 162, 74, 656, 262, 469, 709, 772, 903, 298, 287, 204, 739, 263, 455,
     84, 23, 547, 516, 3, 949, 242, 190, 865, 760, 833, 556, 855, 674, 865, 149, 886, 454, 617, 706, 463, 646, 681, 369, 391, 758, 846, 317, 251, 404,
     178, 614, 962, 982, 847, 987, 801, 258, 266, 311, 27, 430, 440, 389, 504, 452, 11, 99, 225, 243, 162, 596, 741, 385, 515, 543, 419, 775, 799, 637,
     279, 366, 613, 503, 699, 702, 286, 121, 326, 559, 871, 814, 144, 137, 976, 44, 107, 797, 804, 864, 957, 917, 197, 256, 543, 695, 817, 918, 927, 173,
     840, 424, 921, 395, 226, 56, 222, 341, 188, 374, 482, 745, 248, 656, 510, 230, 919, 737, 828, 903, 996, 707, 209, 266, 264, 176, 485, 280, 662, 685,
     898, 678, 154, 752, 226, 964, 522, 505, 391, 794, 559, 918, 448, 653, 230, 551, 978, 403, 466, 642, 837, 521, 386, 253, 67, 71, 41, 201, 645, 860,
     948, 542, 901, 64, 43, 185, 984, 631, 749, 127, 37, 447, 132, 970, 764, 315, 596, 541, 726, 746, 989, 534, 961, 861, 31, 153, 475, 860, 776, 169,
     166, 198, 407, 268, 700, 552, 594, 364, 237, 587, 199, 637, 377, 766, 294, 495, 73, 84, 350, 342, 388, 724, 549, 85, 340, 971, 984, 972, 526, 412,
     88, 382, 794, 785, 514, 603, 969, 974, 776, 732, 467, 465, 836, 453, 100, 40, 609, 874, 37, 238, 781, 207, 373, 763, 872, 756, 264, 268, 797, 182,
     961, 699, 153, 94, 615, 916, 775, 353, 666, 604, 554, 635, 506, 107, 798, 965, 743, 291, 685, 132, 710, 922, 65, 70, 693, 222, 741, 6, 547, 329,
     238, 396, 206, 126, 808, 371, 343, 997, 949, 692, 898, 433, 94, 240, 514, 63, 916, 218, 613, 480, 211, 723, 422, 456, 703, 359, 966, 367, 576, 943,
     689, 261, 865, 461, 72, 655, 299, 117, 140, 562, 704, 463, 967, 923, 584, 586, 342, 535, 759, 759, 566, 328, 86, 24, 771, 533, 982, 76, 709, 407,
     571, 408, 780, 850, 805, 939, 936, 615, 401, 39, 117, 254, 442, 253, 743, 993, 538, 35, 662, 739, 310, 501, 655, 723, 544, 754, 361, 476, 9, 580,
     179, 860, 824, 227, 242, 562, 225, 689, 299, 82, 695, 672, 193, 681, 651, 135, 475, 738, 142, 829, 602, 372, 522, 56, 522, 997, 307, 638, 343, 232,
     687, 135, 710, 507, 442, 531, 45, 158, 802, 901, 244, 213, 133, 739, 268, 392, 22, 45, 626, 62, 629, 146, 897, 67, 979, 614, 826, 495, 505, 193,
     65, 491, 274, 840, 545, 425, 136, 191, 509, 55, 894, 95, 933, 120, 60, 598, 162, 91, 810, 672, 428, 760, 890, 609, 944, 787, 841, 476, 760, 570,
     323, 506, 560, 845, 991, 108, 984, 32, 586, 822, 943, 116, 617, 406, 725, 872, 65, 266, 391, 419, 708, 219, 579, 831, 145, 739, 809, 180, 392, 468,
     827, 85, 643, 657, 877, 544, 62, 451, 773, 572, 41, 484, 19, 968, 123, 20, 935, 77, 847, 820, 983, 361, 765, 929, 450, 704, 479, 718, 76, 858,
     847, 643, 6, 725, 21, 435, 327, 555, 730, 60, 764, 546, 673, 70, 51, 727, 19, 686, 45, 243, 272, 664, 678, 332, 113, 132, 237, 995, 575, 918,
     155, 789, 572, 878, 156, 738, 22, 994, 123, 104, 296, 49, 516, 214, 466, 488, 883, 93, 193, 966, 525, 722, 438, 463, 999, 328, 675, 934, 851, 921,
     335, 13, 815, 763, 333, 530, 485, 877, 686, 912, 846, 494, 580, 394, 959, 776, 930, 911, 306, 875, 214, 182, 769, 394, 532, 160, 636, 197, 696, 636,
     558, 211, 770, 669, 405, 255, 321, 245, 36, 171, 874, 276, 755, 230, 407, 937, 313, 418, 865, 336, 771, 60, 729, 553, 989, 914, 591, 679, 186, 29,
     343, 741, 619, 973, 288, 457, 203, 417, 952, 480, 363, 748, 501, 62, 451, 292, 482, 544, 890, 657, 146, 520, 296, 328, 425, 227, 200, 895, 40, 100,
     773, 602, 52, 685, 412, 119, 842, 468, 790, 661, 246, 164, 814, 993, 452, 22, 631, 328, 267, 627, 953, 264, 993, 74, 539, 487, 295, 669, 610, 266,
     112, 937, 334, 16, 638, 70, 665, 43, 834, 569, 398, 927, 744, 706, 676, 260, 562, 132, 356, 222, 825, 998, 315, 930, 414, 583, 915, 895, 65, 315,
     228, 909, 966, 475, 412, 314, 878, 289, 256, 991, 276, 676, 966, 936, 751, 677, 399, 901, 285, 895, 231, 258, 636, 295, 882, 163, 842, 889, 273, 289,
     380, 598, 855, 478, 557, 751, 965, 852, 99, 617, 673, 787, 675, 721, 289, 21, 299, 405, 229, 943, 554, 438, 583, 814, 964, 903, 84, 464, 735, 719,
     789, 897, 592, 359, 45, 510, 520, 5, 256, 930, 151, 540, 30, 304, 153, 194, 97, 558, 569, 24, 842, 620, 148, 595, 748, 278, 180, 944, 870, 56,
     287, 942, 663, 548, 78, 498, 69, 172, 510, 497, 860, 730, 501, 85, 999, 894, 440, 321, 547, 255, 21, 859, 480, 871, 633, 777, 925, 365, 205, 743,
     917, 568, 549, 950, 662, 723, 847, 101, 250, 68, 771, 925, 986, 929, 58, 50, 227, 942, 348, 544, 977, 873, 873, 636, 145, 861, 269, 118, 298, 150,
     603, 93, 299, 542, 993, 374, 591, 761, 684, 318, 678, 41, 455, 716, 579, 3, 132, 800, 887, 745, 536, 652, 284, 477, 187, 426, 661, 155, 900, 354,
     184, 14, 662, 782, 582, 950, 31, 518, 275, 449, 824, 813, 235, 201, 441, 703, 611, 880, 692, 125, 470, 672, 605, 411, 595, 705, 133, 605, 520, 777,
     33, 838, 473, 501, 167, 373, 387, 499, 368, 913, 97, 934, 502, 317, 847, 645, 965, 983, 13, 750, 751, 843, 965, 66, 881, 748, 820, 262, 282, 291,
     911, 229, 421, 652, 155, 885, 49, 741, 957, 315, 299, 240, 129, 210, 338, 196, 427, 382, 19, 257, 38, 113, 218, 107, 678, 736, 727, 49, 135, 337,
     658, 817, 518, 386, 176, 26, 83, 539, 147, 796, 255, 798, 333, 930, 131, 785, 709, 408, 351, 984, 111, 885, 782, 217, 165, 643, 662, 807, 665, 479,
     87, 867, 708, 782, 337, 880, 659, 1, 549, 695, 538, 304, 446, 433, 985, 816, 371, 978, 748, 890, 291, 454, 705, 258, 711, 237, 202, 839, 193, 699,
     967, 900, 973, 996, 872, 174, 674, 183, 282, 0, 543, 976, 174, 992, 930, 624, 59, 3, 962, 92, 246, 278, 599, 641, 3, 653, 602, 836, 269, 335,
     596, 929, 88, 766, 147, 653, 829, 119, 33, 932, 307, 256, 399, 949, 447, 675, 969, 398, 209, 422, 684, 516, 219, 516, 336, 623, 186, 810, 858, 629,
     365, 105, 477, 742, 119, 627, 753, 913, 954, 649, 335, 198, 715, 758, 67, 102, 975, 361, 266, 743, 470, 167, 574, 385, 603, 421, 201, 609, 601, 285,
     144, 198, 863, 155, 440, 111, 726, 26, 446, 185, 315, 181, 608, 529, 614, 766, 902, 740, 735, 282, 953, 116, 787, 57, 289, 348, 602, 909, 680, 963,
     53, 378, 910, 447, 685, 966, 253, 270, 330, 395, 907, 605, 641, 475, 838, 766, 563, 482, 561, 889, 445, 579, 839, 116, 65, 437, 425, 868, 799, 194,
     715, 901, 259, 742, 127, 781, 892, 100, 722, 897, 815, 549, 94, 856, 336, 585, 417, 143, 901, 538, 351, 725, 611, 533, 290, 28, 771, 244, 380, 253,
     26, 697, 131, 896, 357, 771, 745, 434, 742, 582, 259, 250, 214, 816, 578, 428, 218, 122, 773, 329, 861, 123, 75, 859, 678, 706, 46, 882, 997, 953,
     722, 209, 222, 621, 623, 683, 975, 722, 828, 326, 869, 998, 878, 698, 122, 150, 214, 699, 693, 792, 12, 468, 451, 733, 877, 322, 308, 882, 491, 630,
     819, 67, 737, 324, 109, 43, 721, 356, 67, 36, 541, 987, 283, 275, 351, 227, 936, 675, 895, 831, 475, 817, 176, 790, 453, 301, 243, 180, 334, 845,
     674, 146, 165, 249, 465, 574, 438, 745, 376, 936, 187, 639, 252, 701, 214, 417, 49, 308, 514, 592, 603, 753, 54, 839, 752, 981, 237, 390, 963, 925,
     166, 386, 428, 183, 153, 199, 108, 888, 729, 834, 478, 50, 476, 49, 592, 362, 754, 760, 344, 808, 912, 306, 126, 267, 29, 410, 935, 901, 554, 571,
     508, 325, 276, 465, 936, 906, 761, 602, 316, 596, 479, 785, 578, 276, 823, 155, 464, 231, 902, 373, 256, 776, 182, 978, 24, 573, 313, 259, 294, 433,
     762, 338, 234, 104, 480, 13, 313, 255, 796, 972, 782, 378, 204, 333, 986, 790, 833, 304, 57, 230, 345, 366, 591, 680, 499, 945, 978, 727, 726, 565,
     553, 595, 645, 449, 786, 497, 642, 361, 174, 770, 762, 414, 319, 851, 163, 638, 448, 398, 23, 701, 977, 519, 739, 720, 829, 518, 271, 134, 55, 78,
     587, 868, 106, 86, 844, 349, 639, 338, 78, 17, 323, 563, 984, 170, 546, 160, 731, 350, 848, 269, 752, 99, 941, 997, 994, 817, 744, 657, 58, 459,
     175, 607, 16, 706, 580, 169, 197, 732, 176, 646, 44, 52, 766, 862, 814, 333, 92, 249, 908, 670, 110, 960, 970, 598, 429, 810, 654, 680, 712, 234,
     21, 45, 147, 183, 670, 857, 335, 520, 227, 909, 532, 269, 793, 605, 539, 695, 177, 840, 807, 373, 907, 966, 244, 672, 72, 783, 505, 415, 200, 55,
     721, 663, 145, 241, 475, 971, 263, 242, 488, 373, 473, 344, 89, 318, 175, 24, 439, 143, 495, 930, 657, 745, 80, 881, 830, 386, 185, 797, 711, 333,
     632, 563, 635, 388, 135, 711, 51, 235, 781, 640, 134, 999, 875, 603, 131, 664, 955, 614, 210, 388, 80, 440, 74, 857, 278, 915, 36, 625, 31, 418,
     218, 756, 930, 463, 563, 502, 523, 813, 581, 861, 513, 375, 522, 558, 32, 47, 467, 78, 384, 393, 289, 244, 80, 837, 732, 368, 125, 218, 304, 918,
     340, 441, 820, 512, 21, 814, 787, 434, 187, 762, 67, 202, 811, 606, 418, 27, 379, 797, 921, 612, 625, 711, 451, 755, 664, 985, 210, 361, 520, 36,
     201, 36, 689, 831, 287, 422, 902, 503, 655, 526, 65, 964, 869, 379, 502, 48, 539, 220, 374, 486, 664, 67, 583, 782, 275, 992, 296, 923, 508, 222,
     441, 886, 246, 258, 49, 193, 893, 698, 793, 240, 900, 472, 622, 392, 378, 155, 752, 698, 619, 838, 474, 971, 865, 374, 963, 283, 987, 727, 194, 682,
     273, 734, 217, 984, 852, 282, 243, 256, 222, 341, 662, 338, 756, 48, 94, 84, 405, 822, 521, 596, 314, 702, 92, 525, 911, 521, 81, 204, 401, 399,
     894, 860, 709, 612, 943, 205, 3, 256, 983, 151, 435, 311, 821, 175, 254, 418, 702, 534, 328, 207, 130, 642, 465, 262, 793, 631, 415, 224, 741, 125,
     480, 69, 335, 628, 32, 293, 835, 617, 956, 229, 131, 335, 78, 309, 798, 780, 355, 923, 211, 113, 335, 3, 514, 160, 967, 69, 279, 446, 809, 558,
     366, 12, 60, 444, 3, 684, 1, 927, 330, 853, 404, 709, 1, 715, 178, 352, 650, 800, 885, 488, 192, 919, 835, 688, 600, 553, 842, 851, 876, 220,
     554, 297, 220, 441, 944, 458, 890, 157, 668, 630, 931, 59, 554, 443, 0, 832, 450, 628, 884, 91, 975, 909, 600, 662, 354, 545, 485, 911, 144, 303,
     653, 879, 526, 336, 312, 970, 901, 883, 12, 814, 282, 135, 57, 102, 749, 239, 703, 962, 545, 357, 880, 429, 976, 855, 296, 30, 716, 813, 445, 379,
     296, 212, 8, 26, 675, 671, 437, 485, 951, 386, 667, 637, 938, 780, 925, 539, 652, 871, 234, 519, 39, 913, 544, 530, 542, 809, 551, 749, 57, 838,
     519, 773, 951, 362, 997, 400, 704, 822, 504, 241, 789, 807, 38, 944, 968, 720, 415, 392, 175, 211, 892, 96, 620, 704, 290, 113, 737, 40, 823, 54,
     701, 59, 889, 836, 944, 158, 472, 781, 503, 652, 265, 926, 273, 74, 205, 408, 801, 376, 505, 751, 703, 301, 946, 944, 946, 679, 441, 731, 643, 951,
     121, 365, 468, 752, 882, 64, 772, 681, 233, 468, 334, 452, 897, 415, 296, 746, 174, 377, 295, 537, 20, 900, 680, 274, 362, 73, 723, 921, 539, 362,
     639, 565, 20, 295, 688, 754, 324, 564, 775, 539, 455, 209, 109, 8, 710, 114, 539, 810, 456, 835, 212, 961, 439, 989, 543, 271, 640, 489, 888, 960,
     950, 497, 433, 309, 517, 172, 730, 148, 646, 531, 792, 871, 282, 942, 891, 336, 542, 305, 242, 216, 139, 495, 58, 400, 714, 904, 850, 59, 276, 656,
     404, 672, 195, 55, 339, 294, 643, 357, 941, 135, 500, 535, 180, 151, 264, 602, 388, 496, 890, 349, 710, 283, 926, 850, 40, 963, 503, 351, 395, 315,
     705, 897, 793, 268, 630, 234, 246, 471, 264, 738, 168, 116, 46, 324, 941, 208, 531, 207, 95, 95, 185, 132, 917, 867, 136, 101, 508, 921, 674, 231,
     683, 569, 98, 781, 99, 575, 134, 92, 245, 315, 903, 552, 374, 786, 736, 605, 805, 255, 493, 865, 190, 230, 526, 657, 539, 374, 702, 535, 203, 81,
     172, 444, 99, 821, 563, 730, 958, 980, 356, 666, 906, 922, 86, 44, 829, 507, 738, 693, 347, 470, 995, 712, 399, 840, 272, 649, 341, 68, 599, 708,
     455, 787, 148, 877, 712, 163, 337, 81, 586, 540, 888, 310, 210, 441, 37, 640, 766, 629, 8, 167, 257, 959, 13, 303, 765, 793, 174, 654, 264, 626,
     61, 785, 801, 436, 541, 29, 308, 54, 872, 617, 411, 486, 352, 613, 820, 899, 695, 137, 129, 780, 288, 310, 86, 688, 748, 251, 343, 882, 191, 722,
     945, 174, 135, 760, 645, 644, 221, 813, 288, 499, 988, 829, 322, 913, 189, 20, 580, 664, 270, 577, 729, 137, 299, 898, 706, 180, 558, 898, 542, 977,
     703, 770, 984, 358, 921, 144, 910, 37, 4, 535, 158, 309, 759, 354, 218, 174, 569, 236, 8, 301, 655, 951, 679, 285, 821, 790, 759, 362, 231, 464,
     403, 773, 70, 572, 57, 540, 363, 13, 452, 924, 100, 379, 836, 404, 597, 764, 262, 122, 202, 160, 599, 781, 218, 872, 495, 759, 565, 634, 769, 852,
     159, 256, 260, 110, 403, 660, 822, 126, 968, 48, 832, 866, 824, 660, 283, 533, 733, 899, 856, 519, 581, 71, 328, 594, 400, 260, 859, 725, 619, 928,
     752, 634, 579, 395, 418, 168, 342, 113, 120, 75, 564, 651, 942, 234, 310, 495, 945, 47, 521, 137, 502, 770, 546, 790, 124, 832, 334, 980, 843, 704,
     132, 378, 271, 94, 438, 535, 199, 598, 147, 744, 919, 467, 279, 541, 322, 816, 358, 111, 876, 933, 232, 118, 90, 905, 857, 146, 404, 113, 469, 675,
     560, 317, 759, 757, 260, 407, 10, 676, 42, 60, 596, 525, 666, 572, 344, 362, 815, 18, 377, 960, 559, 828, 131, 43, 991, 230, 713, 204, 356, 209,
     895, 672, 701, 877, 199, 522, 863, 107, 952, 58, 19, 196, 756, 248, 391, 760, 426, 424, 125, 112, 807, 990, 583, 236, 206, 509, 780, 196, 560, 834,
     406, 863, 69, 786, 623, 684, 603, 881, 546, 585, 847, 459, 112, 569, 50, 993, 542, 424, 262, 964, 961, 864, 772, 713, 928, 367, 851, 971, 960, 782,
     975, 855, 260, 233, 652, 714, 25, 182, 177, 38, 725, 435, 758, 107, 802, 754, 75, 369, 953, 212, 909, 100, 273, 57, 292, 335, 283, 867, 371, 123,
     136, 737, 104, 18, 190, 150, 254, 839, 582, 67, 828, 313, 724, 311, 865, 769, 203, 830, 316, 179, 567, 10, 317, 398, 677, 518, 736, 494, 881, 136,
     91, 811, 417, 245, 679, 794, 358, 413, 178, 110, 423, 909, 395, 107, 713, 397, 395, 542, 206, 581, 576, 975, 383, 96, 348, 8, 330, 629, 517, 901,
     727, 859, 603, 202, 966, 986, 397, 443, 567, 922, 65, 288, 361, 309, 296, 761, 259, 266, 193, 837, 403, 356, 858, 960, 366, 661, 709, 148, 217, 766,
     798, 990, 579, 306, 823, 986, 179, 427, 193, 431, 338, 301, 114, 572, 887, 302, 306, 999, 181, 647, 518, 955, 537, 20, 1, 388, 926, 589, 856, 559,
     781, 918, 732, 227, 995, 409, 878, 252, 60, 615, 353, 985, 112, 472, 65, 616, 244, 834, 963, 311, 634, 483, 146, 523, 589, 254, 741, 586, 188, 808,
     781, 933, 976, 78, 909, 715, 199, 13, 113, 113, 944, 601, 445, 716, 457, 35, 348, 875, 493, 414, 335, 602, 154, 420, 334, 817, 248, 529, 8, 768,
     330, 413, 998, 417, 571, 114, 652, 992, 271, 909, 723, 600, 25, 78, 608, 721, 16, 385, 219, 59, 538, 182, 536, 997, 485, 843, 88, 12, 272, 953,
     539, 228, 228, 617, 747, 236, 725, 1, 488, 431, 822, 325, 256, 797, 622, 566, 35, 727, 670, 243, 805, 216, 449, 184, 673, 607, 957, 191, 932, 744,
     85, 4, 103, 339, 180, 334, 723, 155, 521, 456, 386, 771, 468, 426, 500, 332, 854, 34, 536, 62, 802, 102, 914, 455, 637, 534, 385, 852, 972, 627,
     300, 419, 826, 921, 553, 117, 266, 538, 859, 325, 759, 361, 841, 615, 704, 129, 15, 325, 91, 853, 763, 212, 810, 435, 585, 353, 428, 483, 897, 57,
     244, 814, 382, 286, 263, 513, 217, 294, 980, 772, 351, 493, 813, 112, 598, 840, 405, 147, 140, 252, 875, 185, 349, 825, 692, 713, 322, 212, 557, 749,
     773, 634, 978, 523, 754, 225, 512, 194, 408, 247, 399, 86, 776, 497, 812, 84, 637, 923, 830, 572, 601, 613, 86, 963, 789, 532, 595, 471, 195, 86,
     342, 933, 927, 846, 469, 370, 552, 232, 929, 910, 466, 185, 363, 40, 452, 48, 945, 94, 918, 33, 649, 253, 407, 480, 530, 905, 269, 407, 461, 275,
     809, 600, 326, 983, 27, 149, 740, 472, 427, 487, 280, 886, 814, 987, 489, 697, 676, 546, 102, 402, 774, 824, 955, 727, 669, 577, 951, 301, 150, 478,
     176, 987, 170, 277, 218, 135, 924, 300, 717, 241, 937, 857, 514, 476, 999, 264, 325, 372, 86, 229, 219, 513, 49, 403, 745, 306, 39, 411, 958, 929,
     558, 933, 660, 435, 201, 327, 748, 20, 414, 567, 251, 886, 585, 571, 85, 536, 769, 470, 745, 222, 559, 932, 260, 510, 451, 380, 128, 640, 295, 621,
     966, 2, 81, 526, 524, 432, 402, 641, 841, 647, 43, 609, 408, 676, 235, 567, 89, 341, 398, 961, 731, 977, 891, 672, 639, 155, 459, 971, 47, 685,
     208, 830, 735, 874, 98, 789, 219, 852, 97, 846, 288, 401, 586, 558, 936, 913, 144, 988, 668, 873, 13, 419, 690, 194, 593, 968, 885, 530, 34, 766,
     377, 493, 446, 166, 568, 325, 962, 154, 257, 143, 52, 154, 277, 587, 50, 627, 713, 819, 732, 905, 747, 52, 579, 789, 797, 205, 318, 320, 805, 792,
     619, 610, 632, 621, 14, 324, 445, 742, 242, 444, 709, 677, 410, 446, 630, 787, 306, 642, 702, 64, 940, 660, 57, 707, 668, 390, 236, 55, 125, 280,
     826, 916, 9, 370, 252, 339, 718, 468, 923, 574, 479, 204, 198, 314, 667, 139, 963, 609, 874, 545, 617, 191, 14, 245, 592, 201, 348, 122, 767, 809,
     216, 478, 745, 777, 758, 170, 319, 836, 445, 171, 85, 480, 122, 740, 695, 432, 532, 737, 824, 816, 147, 88, 227, 597, 516, 8, 68, 834, 288, 11,
     978, 158, 891, 273, 185, 286, 514, 311, 864, 560, 478, 231, 886, 930, 686, 608, 554, 242, 483, 393, 600, 376, 523, 568, 330, 298, 870, 403, 755, 95,
     500, 776, 852, 699, 436, 951, 91, 337, 304, 853, 923, 326, 930, 691, 374, 816, 783, 11, 482, 30, 555, 161, 158, 167, 871, 715, 665, 809, 480, 295,
     644, 833, 136, 31, 64, 579, 511, 280, 389, 197, 646, 836, 260, 16, 414, 414, 915, 337, 250, 980, 586, 627, 261, 851, 12, 808, 588, 68, 72, 452,
     753, 12, 600, 387, 501, 908, 406, 563, 504, 936, 355, 348, 268, 583, 132, 603, 898, 597, 96, 10, 707, 430, 453, 717, 48, 334, 788, 813, 133, 378,
     505, 627, 302, 494, 774, 465, 787, 172, 167, 971, 545, 848, 662, 759, 286, 853, 291, 535, 480, 622, 821, 428, 715, 902, 853, 373, 560, 715, 492, 168,
     675, 606, 209, 276, 380, 549, 151, 443, 391, 347, 491, 539, 502, 913, 579, 323, 741, 759, 467, 589, 823, 364, 794, 864, 780, 310, 989, 464, 11, 537,
     449, 872, 376, 55, 840, 287, 849, 933, 710, 392, 976, 46, 79, 884, 159, 842, 600, 280, 662, 624, 904, 547, 102, 858, 842, 690, 580, 635, 915, 596,
     13, 932, 724, 925, 392, 375, 496, 128, 489, 676, 528, 825, 837, 200, 325, 371, 357, 433, 817, 946, 212, 867, 529, 476, 324, 71, 753, 210, 624, 611,
     321, 291, 607, 253, 87, 938, 331, 630, 278, 481, 485, 394, 514, 806, 677, 905, 820, 567, 377, 378, 692, 270, 14, 192, 586, 493, 76, 227, 689, 353,
     774, 287, 993, 232, 544, 723, 866, 697, 504, 474, 681, 900, 717, 121, 60, 333, 4, 865, 294, 149, 633, 538, 855, 580, 469, 89, 697, 878, 783, 995,
     952, 701, 194, 330, 765, 795, 749, 751, 32, 355, 11, 839, 441, 987, 139, 79, 577, 436, 135, 196, 923, 480, 711, 975, 107, 45, 0, 874, 764, 322,
     339, 805, 447, 184, 520, 304, 89, 98, 859, 798, 607, 862, 138, 20, 912, 909, 297, 984, 498, 263, 533, 390, 557, 186, 428, 118, 167, 868, 707, 50,
     726, 928, 604, 563, 447, 166, 884, 548, 483, 548, 266, 726, 885, 123, 647, 401, 472, 402, 664, 668, 885, 539, 802, 645, 481, 594, 923, 867, 896, 456,
     133, 802, 965, 719, 371, 133, 919, 616, 722, 364, 597, 907, 322, 761, 780, 400, 991, 525, 250, 776, 968, 25, 360, 547, 321, 815, 60, 446, 397, 654,
     344, 963, 244, 243, 793, 828, 525, 818, 409, 108, 816, 478, 211, 188, 841, 238, 552, 995, 24, 344, 227, 234, 765, 565, 769, 313, 67, 124, 485, 684,
     252, 307, 287, 284, 375, 624, 593, 353, 604, 696, 903, 24, 76, 167, 396, 549, 91, 927, 357, 284, 849, 679, 358, 889, 465, 732, 594, 619, 413, 731,
     804, 86, 510, 793, 316, 616, 708, 65, 745, 864, 945, 833, 95, 494, 123, 980, 384, 12, 694, 379, 745, 477, 606, 152, 379, 598, 136, 675, 224, 55,
     607, 399, 365, 569, 251, 279, 276, 709, 372, 681, 463, 717, 500, 708, 965, 317, 173, 233, 104, 799, 239, 543, 293, 825, 546, 121, 822, 695, 604, 874,
     863, 732, 626, 906, 303, 140, 442, 682, 408, 980, 480, 970, 451, 711, 683, 766, 148, 753, 532, 848, 629, 443, 386, 630, 106, 740, 246, 342, 931, 934,
     688, 695, 821, 386, 14, 669, 901, 190, 879, 630, 360, 927, 933, 52, 528, 585, 411, 970, 265, 529, 597, 553, 60, 604, 821, 116, 4, 120, 858, 678,
     840, 590, 779, 562, 477, 643, 845, 367, 670, 707, 313, 549, 125, 999, 955, 361, 187, 316, 559, 458, 221, 624, 748, 56, 27, 59, 81, 328, 925, 17,
     907, 19, 42, 778, 489, 74, 715, 338, 365, 954, 74, 992, 260, 903, 781, 501, 634, 529, 752, 246, 846, 972, 450, 234, 873, 701, 574, 676, 113, 181,
     691, 606, 766, 263, 12, 126, 105, 772, 252, 183, 597, 424, 381, 402, 975, 837, 879, 779, 948, 870, 348, 563, 130, 751, 222, 548, 282, 785, 367, 809,
     179, 540, 781, 651, 580, 461, 975, 120, 958, 450, 414, 109, 555, 151, 812, 331, 980, 202, 103, 135, 703, 774, 69, 215, 217, 852, 866, 246, 555, 798,
     474, 244, 26, 561, 606, 608, 799, 237, 833, 39, 728, 643, 161, 674, 139, 209, 627, 491, 654, 820, 285, 92, 212, 612, 531, 963, 39, 901, 447, 212,
     895, 71, 499, 370, 411, 76, 59, 410, 311, 316, 334, 830, 543, 399, 614, 779, 100, 23, 426, 945, 220, 377, 496, 586, 960, 668, 209, 442, 126, 646,
     435, 954, 475, 439, 394, 826, 739, 731, 511, 667, 50, 0, 387, 816, 813, 392, 135, 629, 765, 462, 575, 260, 840, 171, 769, 152, 507, 73, 189, 642,
     773, 725, 832, 885, 244, 614, 680, 535, 454, 877, 448, 570, 168, 737, 615, 476, 957, 588, 916, 462, 74, 435, 42, 96, 129, 540, 690, 342, 268, 929,
     996, 235, 169, 608, 601, 613, 133, 5, 603, 984, 840, 755, 745, 809, 618, 188, 140, 798, 963, 480, 853, 86, 699, 817, 227, 39, 731, 578, 198, 797,
     120, 798, 609, 232, 864, 592, 419, 604, 979, 712, 234, 69, 302, 98, 486, 492, 770, 642, 583, 162, 558, 919, 451, 738, 473, 624, 874, 637, 434, 613,
     840, 790, 516, 164, 515, 990, 492, 746, 123, 409, 958, 733, 217, 999, 17, 138, 232, 556, 297, 424, 266, 310, 411, 490, 605, 515, 260, 79, 481, 218,
     92, 585, 366, 113, 253, 265, 906, 84, 981, 438, 591, 672, 126, 328, 269, 309, 938, 938, 730, 474, 256, 533, 699, 446, 985, 702, 756, 898, 820, 656,
     744, 950, 568, 352, 379, 663, 755, 531, 366, 397, 831, 896, 515, 435, 407, 470, 730, 960, 137, 528, 455, 821, 269, 847, 428, 34, 914, 335, 125, 935,
     508, 713, 859, 498, 256, 521, 726, 816, 872, 530, 193, 740, 915, 877, 777, 796, 988, 149, 318, 909, 334, 592, 806, 767, 488, 95, 501, 212, 407, 670,
     492, 604, 966, 265, 545, 574, 168, 170, 931, 304, 409, 643, 808, 605, 233, 164, 624, 92, 509, 734, 608, 432, 601, 149, 768, 125, 671, 112, 847, 881,
     231, 694, 845, 483, 308, 229, 47, 229, 897, 652, 715, 430, 326, 798, 940, 106, 903, 933, 314, 323, 571, 889, 78, 942, 59, 385, 688, 776, 933, 838,
     36, 722, 898, 780, 857, 334, 552, 394, 784, 305, 809, 31, 760, 317, 776, 659, 13, 974, 172, 181, 220, 219, 821, 367, 508, 299, 154, 461, 899, 744,
     421, 651, 356, 29, 954, 466, 516, 937, 701, 816, 630, 52, 953, 927, 739, 621, 580, 313, 544, 440, 179, 822, 737, 364, 413, 115, 869, 112, 970, 600,
     31, 670, 832, 841, 303, 796, 35, 736, 906, 819, 970, 93, 592, 135, 800, 466, 765, 157, 411, 22, 763, 9, 730, 610, 514, 521, 402, 165, 858, 109,
     246, 22, 116, 70, 554, 722, 965, 41, 64, 543, 894, 186, 957, 994, 582, 828, 416, 892, 104, 408, 783, 272, 877, 672, 375, 953, 53, 441, 493, 530,
     818, 488, 760, 175, 177, 322, 421, 332, 305, 40, 582, 899, 876, 184, 491, 373, 171, 939, 728, 440, 684, 183, 360, 886, 148, 901, 632, 373, 447, 576,
     935, 679, 987, 340, 3, 193, 770, 345, 844, 26, 804, 505, 922, 27, 159, 757, 434, 529, 285, 56, 156, 879, 953, 881, 747, 430, 694, 44, 870, 884,
     153, 352, 754, 589, 137, 243, 227, 648, 64, 854, 827, 637, 197, 820, 826, 837, 523, 859, 790, 852, 198, 492, 270, 965, 268, 601, 859, 37, 917, 352,
     539, 121, 83, 364, 111, 915, 806, 636, 407, 532, 31, 553, 374, 656, 863, 854, 237, 294, 531, 610, 513, 522, 76, 707, 826, 641, 501, 455, 228, 208,
     857, 664, 787, 560, 705, 354, 193, 650, 374, 201, 251, 877, 98, 838, 704, 612, 245, 298, 135, 127, 909, 24, 398, 995, 601, 346, 622, 867, 352, 890,
     558, 260, 723, 603, 308, 566, 639, 991, 200, 566, 400, 59, 799, 635, 604, 401, 615, 469, 105, 990, 398, 532, 686, 719, 518, 804, 361, 35, 890, 266,
     81, 457, 105, 35, 29, 738, 924, 271, 431, 698, 447, 30, 249, 800, 95, 548, 939, 533, 564, 91, 280, 282, 305, 337, 674, 576, 748, 595, 160, 16,
     59, 178, 631, 821, 163, 791, 907, 790, 362, 911, 537, 760, 230, 62, 198, 414, 349, 882, 234, 14, 507, 356, 447, 337, 63, 815, 239, 453, 883, 41,
     705, 111, 917, 18, 520, 428, 259, 315, 876, 558, 778, 938, 931, 1, 711, 749, 467, 473, 225, 85, 735, 494, 261, 447, 736, 759, 315, 335, 51, 788,
     685
  >>

HashSpan == (Len(HashTable) - 1) \div 2

(***************************************************************************)
(* floor(frac(Math.sin(s) * 10000) * 10000) for the RNG states s = 1..600. *)
(***************************************************************************)
RandTable ==
  <<
     7098, 9742, 2000, 9750, 7572, 8450, 8659, 5824, 1848, 7888, 979, 2708, 6703, 735, 8784, 9668, 250, 1275, 7720, 4525,
     5563, 4869, 7959, 2163, 4824, 5845, 7592, 578, 6611, 6837, 6235, 2668, 1186, 8268, 1733, 2114, 6186, 6857, 9538, 1316,
     7733, 7845, 2525, 192, 352, 8834, 7312, 4533, 4734, 2514, 2917, 2759, 2515, 1095, 4482, 4899, 6475, 7264, 3800, 8937,
     8222, 1930, 5570, 2603, 2867, 4884, 8002, 7231, 1518, 9068, 5465, 2336, 2804, 5373, 1836, 763, 2015, 7845, 8733, 1134,
     1200, 2878, 6446, 9032, 2438, 4155, 8216, 9830, 6940, 9666, 8751, 3393, 1785, 4801, 6171, 8774, 773, 1812, 9316, 3435,
     2578, 2679, 8863, 7759, 6471, 5749, 8174, 1850, 4260, 5732, 4855, 439, 1809, 8038, 3533, 6139, 205, 4783, 9589, 1118,
     1522, 1315, 9650, 1301, 5954, 9082, 3006, 3771, 2660, 9404, 9661, 8358, 6575, 2481, 6868, 6679, 8554, 4774, 8013, 3965,
     7136, 499, 5463, 7840, 4516, 6917, 4402, 6660, 5135, 2357, 4988, 2052, 58, 7966, 8801, 1538, 5145, 2409, 1973, 2525,
     9221, 4964, 8982, 3277, 9727, 9156, 4981, 2671, 13, 4945, 9086, 5914, 8946, 3802, 6540, 5223, 8978, 7533, 2216, 4736,
     4859, 1893, 8040, 8438, 2118, 7606, 2897, 7633, 1795, 9927, 854, 6164, 4342, 1367, 5466, 3005, 584, 2140, 116, 270,
     974, 1840, 970, 2035, 249, 5809, 9497, 6793, 6664, 1851, 5214, 5290, 2938, 9945, 4562, 5848, 1839, 7547, 8525, 9871,
     3879, 5083, 5348, 7900, 512, 5618, 5859, 2306, 6236, 3579, 1581, 2327, 3928, 1669, 8664, 6791, 4213, 2388, 9068, 4515,
     6171, 8809, 9065, 6370, 8743, 5999, 718, 5211, 3680, 7198, 613, 1221, 2372, 9889, 836, 9196, 4282, 3562, 9318, 3970,
     1879, 829, 5281, 1748, 1017, 5402, 6817, 6498, 5311, 5405, 1081, 5693, 15, 8859, 1467, 1433, 431, 2109, 8278, 9057,
     4856, 5023, 5251, 6396, 7159, 8524, 5905, 9562, 7897, 4563, 1422, 2598, 9900, 9001, 1808, 6125, 6905, 3762, 2327, 4416,
     3595, 5283, 3250, 680, 9605, 3828, 6463, 303, 137, 8768, 7178, 852, 9050, 709, 3326, 8734, 3978, 3879, 2500, 4457,
     826, 1225, 153, 3478, 6372, 8866, 3480, 8473, 3894, 1837, 885, 9565, 7883, 7214, 3294, 4740, 9284, 1080, 2555, 1074,
     323, 3968, 164, 966, 418, 4595, 6263, 6387, 5555, 6717, 1720, 4985, 997, 5469, 6985, 1272, 1511, 983, 2219, 1572,
     8655, 9067, 4613, 898, 4640, 9007, 4748, 560, 8852, 3506, 3218, 578, 6734, 9298, 4244, 6087, 8145, 3646, 6557, 2187,
     2204, 3287, 2322, 5643, 2697, 1007, 4817, 8854, 4289, 991, 8271, 1506, 263, 9657, 694, 5243, 3360, 5800, 6793, 8064,
     2468, 5679, 7395, 4359, 4576, 4845, 7732, 253, 1404, 5450, 2528, 811, 2375, 8523, 3933, 2554, 6039, 1458, 6214, 8827,
     8128, 3558, 1441, 5486, 9022, 5466, 579, 9414, 4108, 5384, 6751, 8077, 4740, 3967, 9198, 6458, 4259, 2801, 3017, 529,
     7001, 66, 7157, 1521, 1684, 4246, 8495, 7257, 2276, 1627, 1769, 2014, 656, 563, 3964, 4732, 7014, 3494, 5094, 4254,
     2180, 8863, 7017, 7478, 7279, 6659, 8185, 5190, 93, 7448, 6789, 1976, 4646, 7611, 6427, 8624, 1297, 3025, 8978, 1671,
     8071, 6292, 8317, 296, 1702, 8577, 8631, 1932, 8916, 6134, 5167, 438, 2290, 9822, 6630, 5672, 1939, 4362, 9533, 2819,
     2829, 7988, 6176, 5539, 5535, 2059, 6865, 1724, 5042, 2666, 7040, 1849, 5765, 9059, 415, 2924, 4412, 8199, 4299, 472,
     3482, 7670, 7555, 7579, 2226, 264, 6212, 3999, 7254, 1655, 1769, 9576, 3911, 790, 7067, 4082, 5159, 9832, 2210, 709,
     4800, 6875, 9715, 5565, 9872, 1568, 6653, 6279, 6487, 1592, 5962, 1241, 864, 1305, 8261, 6016, 6376, 112, 916, 1858,
     3515, 7666, 816, 3589, 812, 7411, 4882, 4623, 7246, 4841, 6315, 1095, 3459, 9627, 7126, 4722, 6408, 7661, 3860, 8380,
     1424, 2051, 8394, 6608, 8794, 8139, 4995, 3459, 8184, 3790, 6007, 6356, 5428, 8003, 4502, 5696, 4190, 2309, 2114, 8244
  >>

(***************************************************************************)
(* The same for the RNG states from the default seed on, s = 12345..12544. *)
(***************************************************************************)
DefaultRandTable ==
  <<
     2836, 3287, 8319, 5228, 3760, 4608, 7311, 514, 4372, 8015, 2206, 6717, 844, 2677, 354, 2163, 1209, 1543, 912, 5507,
     9439, 5118, 4635, 1510, 4909, 2203, 8622, 9376, 9900, 4579, 720, 3073, 2115, 2001, 4381, 4880, 4702, 4004, 96, 1911,
     1640, 1352, 6076, 5467, 5670, 7101, 7767, 2531, 4622, 9747, 618, 5572, 2123, 8361, 7549, 255, 7461, 4223, 370, 3305,
     1419, 3399, 1650, 9335, 722, 8898, 6253, 939, 3707, 568, 6445, 7954, 1120, 9082, 7162, 7698, 8755, 6442, 3597, 46,
     4494, 5943, 4213, 2456, 9170, 2446, 231, 1836, 9581, 4303, 607, 8498, 8230, 7579, 4893, 1403, 1353, 8726, 9016, 7973,
     2470, 2271, 631, 8209, 3032, 590, 5944, 3282, 996, 2275, 6833, 7231, 9347, 270, 1289, 3587, 1330, 3022, 2393, 2382,
     9090, 6427, 4304, 8860, 4319, 4270, 6812, 7391, 2961, 3498, 5661, 8818, 4492, 4390, 6370, 3127, 5052, 8608, 216, 7587,
     1529, 8954, 6970, 422, 6104, 6519, 581, 6577, 6280, 3667, 4156, 7191, 9727, 4830, 6454, 892, 2296, 1307, 2685, 5771,
     456, 6819, 6943, 7280, 2754, 1409, 6275, 1626, 4732, 9280, 7657, 6165, 2656, 4670, 2901, 6829, 316, 6855, 4594, 6426,
     5556, 3335, 6658, 3700, 2121, 8896, 1781, 8147, 8582, 6661, 9667, 8117, 1403, 3179, 6642, 893, 6381, 6151, 5208, 2430
  >>

(***************************************************************************)
(* round(sin(d degrees) * 10000) for d = 0..90.                            *)
(***************************************************************************)
SinTable ==
  <<
     0, 175, 349, 523, 698, 872, 1045, 1219, 1392, 1564, 1736, 1908, 2079, 2250, 2419, 2588,
     2756, 2924, 3090, 3256, 3420, 3584, 3746, 3907, 4067, 4226, 4384, 4540, 4695, 4848, 5000, 5150,
     5299, 5446, 5592, 5736, 5878, 6018, 6157, 6293, 6428, 6561, 6691, 6820, 6947, 7071, 7193, 7314,
     7431, 7547, 7660, 7771, 7880, 7986, 8090, 8192, 8290, 8387, 8480, 8572, 8660, 8746, 8829, 8910,
     8988, 9063, 9135, 9205, 9272, 9336, 9397, 9455, 9511, 9563, 9613, 9659, 9703, 9744, 9781, 9816,
     9848, 9877, 9903, 9925, 9945, 9962, 9976, 9986, 9994, 9998, 10000
  >>

(***************************************************************************)
(* Bounds of the model.                                                    *)
(***************************************************************************)
\* the seeds are the default seed and FirstSeed, ..., FirstSeed + SeedCount - 1
FirstSeed == 336

SeedCount == 3

\* the largest segment limit of a single generation
MaxLimit == 17

\* the largest segment limit of a session
SessionLimit == 5

\* generateCity calls of a session
MaxRuns == 2

\* messages other scripts post to the worker
MaxMessages == 2

\* the longest list of sample segments
MaxListLen == 2

(***************************************************************************)
(* config (city-generator.tsx:74-84) and the literals of the worker.       *)
(***************************************************************************)
\* useState(12345), city-generator.tsx:97
DefaultSeed == 12345

HIGHWAY_SEGMENT_LENGTH == 400

DEFAULT_SEGMENT_LENGTH == 300

ROAD_SNAP_DISTANCE == 50

\* road-network-worker.js line 23
SNAP_DISTANCE == 50

(***************************************************************************)
(* Fixed-point arithmetic.                                                 *)
(***************************************************************************)
\* the element of a singleton set.  In The({ e : x \in {v} }) the value v
\* is computed once and e is computed with x standing for it.
The(S) == CHOOSE x \in S : TRUE

Abs(a) == IF a < 0 THEN -a ELSE a

Min(a, b) == IF a < b THEN a ELSE b

Max(a, b) == IF a > b THEN a ELSE b

\* a / b rounded to the nearest integer, b > 0
Round(a, b) == (2 * a + b) \div (2 * b)

\* the r with lo <= r < hi and r * r <= n < (r + 1) * (r + 1), given that
\* lo * lo <= n < hi * hi
SqrtSearch[n \in Nat, lo \in Nat, hi \in Nat] ==
  IF hi - lo <= 1 THEN lo
  ELSE IF ((lo + hi) \div 2) * ((lo + hi) \div 2) <= n
       THEN SqrtSearch[n, (lo + hi) \div 2, hi]
       ELSE SqrtSearch[n, lo, (lo + hi) \div 2]

\* r or r + 1, the nearer to the square root of n
nearerRoot[n \in Nat, r \in Nat] == IF n - r * r > r THEN r + 1 ELSE r

\* Math.sqrt, rounded to the nearest unit
Sqrt(n) == The({ nearerRoot[m, SqrtSearch[m, 0, 46341]] : m \in {n} })

\* Math.sin and Math.cos of an angle in degrees, times 10000
Sin(d) ==
  The({ IF m <= 90 THEN SinTable[m + 1]
        ELSE IF m <= 180 THEN SinTable[180 - m + 1]
        ELSE IF m <= 270 THEN -SinTable[m - 180 + 1]
        ELSE -SinTable[360 - m + 1] : m \in {d % 360} })

Cos(d) == Sin(d + 90)

\* the degree lo <= d < hi with (dx, dy) at or left of d and right of d + 1
DegreeSearch[dx \in Int, dy \in Int, lo \in Int, hi \in Int] ==
  IF hi - lo <= 1 THEN lo
  ELSE IF Cos((lo + hi) \div 2) * dy - Sin((lo + hi) \div 2) * dx >= 0
       THEN DegreeSearch[dx, dy, (lo + hi) \div 2, hi]
       ELSE DegreeSearch[dx, dy, lo, (lo + hi) \div 2]

\* the quadrant of (dx, dy): its first degree
quadrant[dx \in Int, dy \in Int] ==
  IF dx > 0 /\ dy >= 0 THEN 0
  ELSE IF dx <= 0 /\ dy > 0 THEN 90
  ELSE IF dx < 0 /\ dy <= 0 THEN -180
  ELSE -90

\* lo or lo + 1, the nearer to the direction of (dx, dy); 180 for -180
nearerDegree[dx \in Int, dy \in Int, lo \in Int] ==
  IF dx * Cos(lo + 1) + dy * Sin(lo + 1) > dx * Cos(lo) + dy * Sin(lo)
  THEN lo + 1
  ELSE IF lo = -180 THEN 180 ELSE lo

\* Math.atan2(dy, dx) rounded to the nearest degree, -179..180; atan2(0, 0) = 0
Atan2(dy, dx) ==
  The({ IF v[1] = 0 /\ v[2] = 0 THEN 0
        ELSE nearerDegree[v[1], v[2],
                          DegreeSearch[v[1], v[2], quadrant[v[1], v[2]],
                                       quadrant[v[1], v[2]] + 90]] :
        v \in {<<dx, dy>>} })

Point(x, y) == [x |-> x, y |-> y]

DistSq(p, q) == (p.x - q.x) * (p.x - q.x) + (p.y - q.y) * (p.y - q.y)

\* Math.sqrt(dx ** 2 + dy ** 2) / Math.hypot(dx, dy)
Dist(p, q) == Sqrt(DistSq(p, q))

\* the point at distance len from p in direction d
Advance(p, d, len) ==
  Point(p.x + Round(Cos(d) * len, 10000), p.y + Round(Sin(d) * len, 10000))

(***************************************************************************)
(* NoiseField: noise and heatmapNoise, in thousandths.                     *)
(***************************************************************************)
hash(n) == HashTable[n + HashSpan + 1]

\* fade(m / P) * 1000
fade(m, P) == (m * m * (3 * P - 2 * m)) \div ((P * P * P) \div 1000)

\* noise(x / P, y / P) * 1000: the octave of lattice period P
noise(x, y, P) ==
  LET ix == x \div P
      iy == y \div P
      fx == x - ix * P
      fy == y - iy * P
      a == hash(ix + iy * 57)
      b == hash(ix + 1 + iy * 57)
      c == hash(ix + (iy + 1) * 57)
      d == hash(ix + 1 + (iy + 1) * 57)
      i1 == a + (fade(fx, P) * (b - a)) \div 1000
      i2 == c + (fade(fx, P) * (d - c)) \div 1000
  IN i1 + (fade(fy, P) * (i2 - i1)) \div 1000

\* frequency 0.005, 0.01, 0.02 = 1/200, 1/100, 1/50; amplitude 1, 0.5, 0.25
heatmapNoise(x, y) ==
  LET value == noise(x, y, 200) + noise(x, y, 100) \div 2 + noise(x, y, 50) \div 4
  IN Max(0, Min(1000, value))

\* a faulty random: the state is not advanced
randomStuck(s) ==
  [value |-> IF s >= DefaultSeed THEN DefaultRandTable[s - DefaultSeed + 1]
             ELSE RandTable[s],
   seed |-> s]

(***************************************************************************)
(* SeededRNG: random() reads Math.sin(seed) and then increments seed.      *)
(***************************************************************************)
random(s) ==
  [value |-> IF s >= DefaultSeed THEN DefaultRandTable[s - DefaultSeed + 1]
             ELSE RandTable[s],
   seed |-> s + 1]

(***************************************************************************)
(* Segments.  JavaScript object identity is the field uid (the order of    *)
(* creation within a run); links.f and links.b hold uids.                  *)
(***************************************************************************)
createSegment(start, end, t, highway) ==
  The({ [uid |-> 0, id |-> 0, start |-> p, end |-> q,
         width |-> IF highway THEN 16 ELSE 6,
         t |-> t, highway |-> highway,
         dir |-> Atan2(q.y - p.y, q.x - p.x),
         length |-> Sqrt((q.x - p.x) * (q.x - p.x) + (q.y - p.y) * (q.y - p.y)),
         severed |-> FALSE, f |-> <<>>, b |-> <<>>] :
        p \in {start}, q \in {end} })

\* the point seg1Start + (tn / d) * (seg1End - seg1Start), for 0 <= tn <= d
pointAt(seg1Start, seg1End, tn, d) ==
  Point(seg1Start.x + Round(tn * (seg1End.x - seg1Start.x), d),
        seg1Start.y + Round(tn * (seg1End.y - seg1Start.y), d))

\* lines 184-187, with t = tn / denom and u = un / denom
withinBoth(seg1Start, seg1End, tn, un, denom) ==
  IF denom > 0
  THEN IF tn >= 0 /\ tn <= denom /\ un >= 0 /\ un <= denom
       THEN <<pointAt(seg1Start, seg1End, tn, denom)>> ELSE <<>>
  ELSE IF tn <= 0 /\ tn >= denom /\ un <= 0 /\ un >= denom
       THEN <<pointAt(seg1Start, seg1End, -tn, -denom)>> ELSE <<>>

\* <<>> for null, <<point>> for an intersection point.  On whole numbers
\* Math.abs(denom) < 0.0001 is denom = 0.
doSegmentsIntersect(seg1Start, seg1End, seg2Start, seg2End) ==
  LET x1 == seg1Start.x
      y1 == seg1Start.y
      x2 == seg1End.x
      y2 == seg1End.y
      x3 == seg2Start.x
      y3 == seg2Start.y
      x4 == seg2End.x
      y4 == seg2End.y
  IN IF (x1 - x2) * (y3 - y4) - (y1 - y2) * (x3 - x4) = 0 THEN <<>>
     ELSE withinBoth(seg1Start, seg1End,
                     (x1 - x3) * (y3 - y4) - (y1 - y3) * (x3 - x4),
                     -((x1 - x2) * (y1 - y3) - (y1 - y2) * (x1 - x3)),
                     (x1 - x2) * (y3 - y4) - (y1 - y2) * (x3 - x4))

\* a faulty truncation: an intersection at exactly 30 units truncates too
truncateAtFromThirty(segment, other, intersection) ==
  IF intersection # <<>> /\ DistSq(intersection[1], segment.start) >= 30 * 30
  THEN <<[segment EXCEPT !.end = intersection[1],
                         !.length = Dist(intersection[1], segment.start),
                         !.severed = TRUE,
                         !.f = Append(@, other.uid)],
         [other EXCEPT !.f = Append(@, segment.uid)]>>
  ELSE <<segment, other>>

\* lines 212-227: what localConstraints does with the intersection found
\* against one accepted segment; the pair <<segment, other>> after it
truncateAt(segment, other, intersection) ==
  IF intersection # <<>> /\ DistSq(intersection[1], segment.start) > 30 * 30
  THEN <<[segment EXCEPT !.end = intersection[1],
                         !.length = Dist(intersection[1], segment.start),
                         !.severed = TRUE,
                         !.f = Append(@, other.uid)],
         [other EXCEPT !.f = Append(@, segment.uid)]>>
  ELSE <<segment, other>>

\* lines 210-227: the intersection check of localConstraints
truncationCheck(segment, other) ==
  The({ truncateAt(segment, other, intersection) :
        intersection \in {doSegmentsIntersect(segment.start, segment.end,
                                              other.start, other.end)} })

\* a faulty snap: the accepted segment's end is tried before its start
snapCheckEndFirst(segment, other) ==
  LET distToStartSq == DistSq(segment.end, other.start)
      distToEndSq == DistSq(segment.end, other.end)
  IN IF distToEndSq < ROAD_SNAP_DISTANCE * ROAD_SNAP_DISTANCE
     THEN <<[segment EXCEPT !.end = other.end,
                            !.f = Append(@, other.uid),
                            !.severed = TRUE],
            [other EXCEPT !.f = Append(@, segment.uid)]>>
     ELSE IF distToStartSq < ROAD_SNAP_DISTANCE * ROAD_SNAP_DISTANCE
     THEN <<[segment EXCEPT !.end = other.start,
                            !.f = Append(@, other.uid),
                            !.severed = TRUE],
            [other EXCEPT !.b = Append(@, segment.uid)]>>
     ELSE <<segment, other>>

\* a faulty snap: the accepted segment's end is moved onto the candidate's
snapCheckMovingOther(segment, other) ==
  LET distToStartSq == DistSq(segment.end, other.start)
      distToEndSq == DistSq(segment.end, other.end)
  IN IF distToStartSq < ROAD_SNAP_DISTANCE * ROAD_SNAP_DISTANCE
     THEN <<[segment EXCEPT !.end = other.start,
                            !.f = Append(@, other.uid),
                            !.severed = TRUE],
            [other EXCEPT !.b = Append(@, segment.uid)]>>
     ELSE IF distToEndSq < ROAD_SNAP_DISTANCE * ROAD_SNAP_DISTANCE
     THEN <<[segment EXCEPT !.f = Append(@, other.uid),
                            !.severed = TRUE],
            [other EXCEPT !.end = segment.end,
                          !.f = Append(@, segment.uid)]>>
     ELSE <<segment, other>>

\* lines 229-243: the proximity snap of localConstraints against one
\* accepted segment
snapCheck(segment, other) ==
  LET distToStartSq == DistSq(segment.end, other.start)
      distToEndSq == DistSq(segment.end, other.end)
  IN IF distToStartSq < ROAD_SNAP_DISTANCE * ROAD_SNAP_DISTANCE
     THEN <<[segment EXCEPT !.end = other.start,
                            !.f = Append(@, other.uid),
                            !.severed = TRUE],
            [other EXCEPT !.b = Append(@, segment.uid)]>>
     ELSE IF distToEndSq < ROAD_SNAP_DISTANCE * ROAD_SNAP_DISTANCE
     THEN <<[segment EXCEPT !.end = other.end,
                            !.f = Append(@, other.uid),
                            !.severed = TRUE],
            [other EXCEPT !.f = Append(@, segment.uid)]>>
     ELSE <<segment, other>>

\* lines 210-243: both checks against one accepted segment, in the code's
\* order; the pair <<segment, other>> after them
constrainAgainst(segment, other) ==
  The({ snapCheck(cut[1], cut[2]) : cut \in {truncationCheck(segment, other)} })

RECURSIVE constrainFromStoppingEarly(_, _, _)
\* a faulty loop: the scan ends at the first segment that severs the candidate
constrainFromStoppingEarly(segment, existingSegments, i) ==
  IF i > Len(existingSegments) \/ segment.severed
  THEN [accepted |-> TRUE, segment |-> segment, existing |-> existingSegments]
  ELSE The({ constrainFromStoppingEarly(pair[1],
                                        [existingSegments EXCEPT ![i] = pair[2]], i + 1) :
             pair \in {constrainAgainst(segment, existingSegments[i])} })

RECURSIVE constrainFrom(_, _, _)
\* the for loop of localConstraints from index i on
constrainFrom(segment, existingSegments, i) ==
  IF i > Len(existingSegments)
  THEN [accepted |-> TRUE, segment |-> segment, existing |-> existingSegments]
  ELSE The({ constrainFrom(pair[1], [existingSegments EXCEPT ![i] = pair[2]], i + 1) :
             pair \in {constrainAgainst(segment, existingSegments[i])} })

\* a faulty localConstraints: a candidate it has severed is rejected
localConstraintsRejecting(segment, existingSegments) ==
  LET local == constrainFrom(segment, existingSegments, 1)
  IN [local EXCEPT !.accepted = ~local.segment.severed]

\* lines 208-247: always accepted
localConstraints(segment, existingSegments) ==
  constrainFrom(segment, existingSegments, 1)

\* (random() - 0.5) * 0.3 radians, in degrees; r is random() * 10000
curveDeviation(r) == Round((r - 5000) * 17189, 10000000)

\* previousSegment.dir + (random() < 0.5 ? -Math.PI/2 : Math.PI/2)
perpendicular(dir, r) == dir + (IF r < 5000 THEN -90 ELSE 90)

\* a faulty continuation: the straight proposal whatever the populations
highwayContinuationStraight(previousSegment, s) ==
  [newBranches |->
     <<createSegment(previousSegment.end,
                     Advance(previousSegment.end, previousSegment.dir,
                             HIGHWAY_SEGMENT_LENGTH),
                     0, TRUE)>>,
   seed |-> random(s).seed]

\* lines 288-318: the straight and the curved proposal; one draw
highwayContinuation(previousSegment, s) ==
  The({ [newBranches |->
           <<IF heatmapNoise(curvedPath.end.x, curvedPath.end.y)
                  > heatmapNoise(continueStraight.end.x, continueStraight.end.y)
             THEN curvedPath ELSE continueStraight>>,
         seed |-> random(s).seed] :
        continueStraight \in
          {createSegment(previousSegment.end,
                         Advance(previousSegment.end, previousSegment.dir,
                                 HIGHWAY_SEGMENT_LENGTH),
                         0, TRUE)},
        curvedPath \in
          {createSegment(previousSegment.end,
                         Advance(previousSegment.end,
                                 previousSegment.dir + curveDeviation(random(s).value),
                                 HIGHWAY_SEGMENT_LENGTH),
                         0, TRUE)} })

\* a perpendicular segment from previousSegment.end; r is the draw for the side
sideBranch(previousSegment, r, len, localDelay, highway) ==
  createSegment(previousSegment.end,
                Advance(previousSegment.end, perpendicular(previousSegment.dir, r), len),
                localDelay, highway)

\* lines 321-333: population > 0.3 && random() < 0.02
highwayBranch(previousSegment, population, goals) ==
  IF population > 300
  THEN IF random(goals.seed).value < 200
       THEN [newBranches |->
               Append(goals.newBranches,
                      sideBranch(previousSegment, random(goals.seed + 1).value,
                                 HIGHWAY_SEGMENT_LENGTH, 0, TRUE)),
             seed |-> random(goals.seed + 1).seed]
       ELSE [goals EXCEPT !.seed = random(goals.seed).seed]
  ELSE goals

\* lines 336-348: population > 0.2 && random() < 0.1
highwayStreetBranch(previousSegment, population, goals) ==
  IF population > 200
  THEN IF random(goals.seed).value < 1000
       THEN [newBranches |->
               Append(goals.newBranches,
                      sideBranch(previousSegment, random(goals.seed + 1).value,
                                 DEFAULT_SEGMENT_LENGTH, 3, FALSE)),
             seed |-> random(goals.seed + 1).seed]
       ELSE [goals EXCEPT !.seed = random(goals.seed).seed]
  ELSE goals

\* lines 286-348: the proposals from a highway; s is the RNG state
highwayGoals(previousSegment, population, s) ==
  The({ highwayStreetBranch(previousSegment, population, branched) :
        branched \in { highwayBranch(previousSegment, population, continued) :
                         continued \in {highwayContinuation(previousSegment, s)} } })

\* lines 352-361
streetContinuation(previousSegment, s) ==
  [newBranches |->
     <<createSegment(previousSegment.end,
                     Advance(previousSegment.end, previousSegment.dir,
                             DEFAULT_SEGMENT_LENGTH),
                     0, FALSE)>>,
   seed |-> s]

\* lines 364-376: random() < 0.15
streetBranch(previousSegment, goals) ==
  IF random(goals.seed).value < 1500
  THEN [newBranches |->
          Append(goals.newBranches,
                 sideBranch(previousSegment, random(goals.seed + 1).value,
                            DEFAULT_SEGMENT_LENGTH, 1, FALSE)),
        seed |-> random(goals.seed + 1).seed]
  ELSE [goals EXCEPT !.seed = random(goals.seed).seed]

\* a faulty street: the population is not looked at
streetGoalsAnywhere(previousSegment, population, s) ==
  The({ streetBranch(previousSegment, continued) :
        continued \in {streetContinuation(previousSegment, s)} })

\* lines 349-378: the proposals from a street
streetGoals(previousSegment, population, s) ==
  IF population > 200
  THEN The({ streetBranch(previousSegment, continued) :
             continued \in {streetContinuation(previousSegment, s)} })
  ELSE [newBranches |-> <<>>, seed |-> s]

\* lines 286-378: the proposals by the kind of previousSegment
proposals(previousSegment, population, s) ==
  IF previousSegment.highway
  THEN highwayGoals(previousSegment, population, s)
  ELSE streetGoals(previousSegment, population, s)

\* lines 380-384: branch.links.b.push(previousSegment) and
\* previousSegment.links.f.push(branch) for every branch; the branches are
\* the objects uid, uid + 1, ...
linkBranches(previousSegment, uid, goals) ==
  The({ [newBranches |->
           [i \in 1..Len(g.newBranches) |->
              [g.newBranches[i] EXCEPT !.uid = uid + i - 1,
                                       !.b = Append(@, previousSegment.uid)]],
         previousSegment |->
           [previousSegment EXCEPT
              !.f = @ \o [i \in 1..Len(g.newBranches) |-> uid + i - 1]],
         seed |-> g.seed] :
        g \in {goals} })

\* a faulty globalGoals: the early return of line 282 is left out
globalGoalsOfSevered(previousSegment, s, uid) ==
  The({ linkBranches(previousSegment, uid, proposals(previousSegment, population, s)) :
        population \in {heatmapNoise(previousSegment.end.x, previousSegment.end.y)} })

\* globalGoals: the branches, previousSegment with its forward links, and
\* the RNG state after the draws
globalGoals(previousSegment, s, uid) ==
  IF previousSegment.severed
  THEN [newBranches |-> <<>>, previousSegment |-> previousSegment, seed |-> s]
  ELSE The({ linkBranches(previousSegment, uid,
                          proposals(previousSegment, population, s)) :
             population \in {heatmapNoise(previousSegment.end.x,
                                          previousSegment.end.y)} })

(***************************************************************************)
(* road-network-worker.js.  The worker's coordinates are half units, so    *)
(* that the midpoint of two whole-unit points is exact and Math.round is   *)
(* not the identity.                                                       *)
(***************************************************************************)
\* a point of the main thread, in the worker's half units
halfUnits(p) == Point(2 * p.x, 2 * p.y)

\* Math.round of a coordinate in half units: halves round up
MathRound(h) == (h + 1) \div 2

\* lines 170-185; on whole numbers Math.abs(denom) < 1e-10 is denom = 0
getLineIntersection(p1, p2, p3, p4) ==
  IF (p1.x - p2.x) * (p3.y - p4.y) - (p1.y - p2.y) * (p3.x - p4.x) = 0 THEN <<>>
  ELSE withinBoth(p1, p2,
                  (p1.x - p3.x) * (p3.y - p4.y) - (p1.y - p3.y) * (p3.x - p4.x),
                  -((p1.x - p2.x) * (p1.y - p3.y) - (p1.y - p2.y) * (p1.x - p3.x)),
                  (p1.x - p2.x) * (p3.y - p4.y) - (p1.y - p2.y) * (p3.x - p4.x))

\* a faulty test: an intersection at exactly 10 units from an end splits too
awayFromEndsInclusive(seg, intersection) ==
  /\ DistSq(intersection, seg.start) >= (2 * 10) * (2 * 10)
  /\ DistSq(intersection, seg.end) >= (2 * 10) * (2 * 10)

\* lines 45 and 57: the intersection is more than 10 units from both ends
awayFromEnds(seg, intersection) ==
  /\ DistSq(intersection, seg.start) > (2 * 10) * (2 * 10)
  /\ DistSq(intersection, seg.end) > (2 * 10) * (2 * 10)

\* a faulty split: the far part is appended and segment k keeps its end
splitSegmentKeepingEnd(modifiedSegments, k, intersection, split) ==
  IF split
  THEN Append(modifiedSegments,
              [start |-> intersection, end |-> modifiedSegments[k].end,
               width |-> modifiedSegments[k].width,
               highway |-> modifiedSegments[k].highway])
  ELSE modifiedSegments

\* lines 45-55 and 57-67: segment k ends at the intersection and its far
\* part is appended
splitSegment(modifiedSegments, k, intersection, split) ==
  IF split
  THEN Append([modifiedSegments EXCEPT ![k].end = intersection],
              [start |-> intersection, end |-> modifiedSegments[k].end,
               width |-> modifiedSegments[k].width,
               highway |-> modifiedSegments[k].highway])
  ELSE modifiedSegments

\* lines 37-68: the four distances are taken before either split
splitAt(modifiedSegments, i, j, intersection) ==
  IF intersection = <<>> THEN modifiedSegments
  ELSE splitSegment(
         splitSegment(modifiedSegments, i, intersection[1],
                      awayFromEnds(modifiedSegments[i], intersection[1])),
         j, intersection[1], awayFromEnds(modifiedSegments[j], intersection[1]))

\* lines 29-68: the body of the split loops for the pair (i, j)
splitPair(modifiedSegments, i, j) ==
  splitAt(modifiedSegments, i, j,
          getLineIntersection(modifiedSegments[i].start, modifiedSegments[i].end,
                              modifiedSegments[j].start, modifiedSegments[j].end))

RECURSIVE splitFrom(_, _, _)
\* lines 27-70 from the pair (i, j) on; both loop conditions read the
\* length of the array as it is, appended segments included
splitFrom(modifiedSegments, i, j) ==
  IF i > Len(modifiedSegments) THEN modifiedSegments
  ELSE IF j > Len(modifiedSegments) THEN splitFrom(modifiedSegments, i + 1, i + 2)
  ELSE The({ splitFrom(after, i, j + 1) : after \in {splitPair(modifiedSegments, i, j)} })

\* lines 101-111
setEndpoint(seg, isStart, snapPoint) ==
  IF isStart THEN [seg EXCEPT !.start = snapPoint] ELSE [seg EXCEPT !.end = snapPoint]

\* lines 96-99
midpoint(p, q) == Point(Round(p.x + q.x, 2), Round(p.y + q.y, 2))

\* lines 90-112: one combination; p and q are ep1.point and ep2.point
snapCombination(modifiedSegments, i, j, aIsStart, bIsStart, p, q) ==
  IF DistSq(p, q) <= (2 * SNAP_DISTANCE) * (2 * SNAP_DISTANCE)
  THEN [modifiedSegments EXCEPT ![i] = setEndpoint(@, aIsStart, midpoint(p, q)),
                                ![j] = setEndpoint(@, bIsStart, midpoint(p, q))]
  ELSE modifiedSegments

\* lines 88-114: the four combinations in the code's order; the points are
\* the ones read into endpoints before the first combination
snapEndpoints(modifiedSegments, i, j, start1, end1, start2, end2) ==
  snapCombination(
    snapCombination(
      snapCombination(
        snapCombination(modifiedSegments, i, j, TRUE, TRUE, start1, start2),
        i, j, TRUE, FALSE, start1, end2),
      i, j, FALSE, TRUE, end1, start2),
    i, j, FALSE, FALSE, end1, end2)

\* lines 77-114
snapPair(modifiedSegments, i, j) ==
  The({ snapEndpoints(modifiedSegments, i, j, ep[1], ep[2], ep[3], ep[4]) :
        ep \in {<<modifiedSegments[i].start, modifiedSegments[i].end,
                  modifiedSegments[j].start, modifiedSegments[j].end>>} })

RECURSIVE snapFrom(_, _, _)
\* lines 75-116 from the pair (i, j) on
snapFrom(modifiedSegments, i, j) ==
  IF i > Len(modifiedSegments) THEN modifiedSegments
  ELSE IF j > Len(modifiedSegments) THEN snapFrom(modifiedSegments, i + 1, i + 2)
  ELSE The({ snapFrom(after, i, j + 1) : after \in {snapPair(modifiedSegments, i, j)} })

\* lines 123-124: the key of a point
keyOf(p) == Point(MathRound(p.x), MathRound(p.y))

\* lines 126-142 for one endpoint: the Map keeps insertion order
addEndpoint(connectionPoints, point, index, isStart) ==
  IF \E k \in 1..Len(connectionPoints) : connectionPoints[k].key = keyOf(point)
  THEN [k \in 1..Len(connectionPoints) |->
          IF connectionPoints[k].key = keyOf(point)
          THEN [connectionPoints[k] EXCEPT
                  !.segments = Append(@, [index |-> index, isStart |-> isStart])]
          ELSE connectionPoints[k]]
  ELSE Append(connectionPoints,
              [key |-> keyOf(point), point |-> point,
               segments |-> <<[index |-> index, isStart |-> isStart]>>,
               isIntersection |-> FALSE])

RECURSIVE groupFrom(_, _, _)
\* lines 122-143: the forEach from segment i on; index is i - 1
groupFrom(modifiedSegments, i, connectionPoints) ==
  IF i > Len(modifiedSegments) THEN connectionPoints
  ELSE The({ groupFrom(modifiedSegments, i + 1, grouped) :
             grouped \in
               {The({ addEndpoint(withStart, modifiedSegments[i].end, i - 1, FALSE) :
                      withStart \in {addEndpoint(connectionPoints,
                                                 modifiedSegments[i].start, i - 1, TRUE)} })} })

\* a faulty marking: 4 or more endpoints are asked for
markIntersectionsOverThree(connectionPoints) ==
  [k \in 1..Len(connectionPoints) |->
     [connectionPoints[k] EXCEPT !.isIntersection = Len(connectionPoints[k].segments) > 3]]

\* lines 146-150
markIntersections(connectionPoints) ==
  [k \in 1..Len(connectionPoints) |->
     [connectionPoints[k] EXCEPT !.isIntersection = Len(connectionPoints[k].segments) >= 3]]

\* lines 153-166
unifiedNetworkOf(modifiedSegments) ==
  [paths |-> modifiedSegments,
   connectionPoints |-> The({ markIntersections(grouped) :
                              grouped \in {groupFrom(modifiedSegments, 1, <<>>)} }),
   intersections |-> <<>>]

\* line 24: the copy of the posted list
copyOf(postedSegments) ==
  [i \in 1..Len(postedSegments) |->
     [start |-> halfUnits(postedSegments[i].start),
      end |-> halfUnits(postedSegments[i].end),
      width |-> postedSegments[i].width,
      highway |-> postedSegments[i].highway]]

\* lines 22-167
buildUnifiedRoadNetwork(postedSegments) ==
  The({ unifiedNetworkOf(snapped) :
        snapped \in {The({ snapFrom(split, 1, 2) :
                           split \in {splitFrom(copyOf(postedSegments), 1, 2)} })} })

\* a message: e.data is missing (null or undefined), or holds no segments
\* property, or holds a list whose elements may lack start and end
NoData == [hasData |-> FALSE, hasSegments |-> FALSE, segments |-> <<>>]

NoSegments == [hasData |-> TRUE, hasSegments |-> FALSE, segments |-> <<>>]

WithSegments(list) == [hasData |-> TRUE, hasSegments |-> TRUE, segments |-> list]

\* buildUnifiedRoadNetwork throws a TypeError: the spread of line 24 on a
\* missing list, or segment.start.x (lines 33 and 123) on an element
\* without its points
throws(data) ==
  \/ ~data.hasSegments
  \/ \E i \in 1..Len(data.segments) : ~({"start", "end"} \subseteq DOMAIN data.segments[i])

\* lines 5-19: the try block and its catch; the response posted
tryBuild(data) ==
  IF throws(data)
  THEN [success |-> FALSE, unifiedNetwork |-> <<>>, error |-> "TypeError"]
  ELSE [success |-> TRUE, unifiedNetwork |-> <<buildUnifiedRoadNetwork(data.segments)>>,
        error |-> ""]

\* lines 2-20: self.onmessage.  The destructuring of line 3 is outside the
\* try block: on a message without data it throws and nothing is posted.
onmessage(data) ==
  IF ~data.hasData
  THEN [posted |-> <<>>, uncaught |-> TRUE]
  ELSE [posted |-> <<tryBuild(data)>>, uncaught |-> FALSE]
(***************************************************************************)
(* findCityBlocks (city-generator.tsx:407-594).  Points are in half units, *)
(* as in the worker; the colour of a block, drawn with Math.random, is not *)
(* part of the model.                                                      *)
(***************************************************************************)
\* line 536: the smallest area of a polygon that is processed
MinBlockArea == 15000

\* line 469: the steps of one walk
MaxWalkSteps == 20

RECURSIVE intersectionsWith(_, _, _)
\* lines 393-402: the inner loop, the pairs (i, j), (i, j + 1), ...
intersectionsWith(segs, i, j) ==
  IF j > Len(segs) THEN <<>>
  ELSE doSegmentsIntersect(segs[i].start, segs[i].end, segs[j].start, segs[j].end)
         \o intersectionsWith(segs, i, j + 1)

RECURSIVE intersectionsFrom(_, _, _)
\* lines 392-403: the pairs (i, j), (i, j + 1), ... and those of later i
intersectionsFrom(segs, i, j) ==
  IF i > Len(segs) THEN <<>>
  ELSE intersectionsWith(segs, i, j) \o intersectionsFrom(segs, i + 1, i + 2)

\* lines 390-405
findIntersections(segs) == intersectionsFrom(segs, 1, 2)

\* lines 426, 433-434: `${Math.round(x)},${Math.round(y)}`
nodeKey(point) == Point(MathRound(point.x), MathRound(point.y))

\* the position of key in the node map (a Map keeps insertion order), or 0
position(nodes, key) ==
  IF \E i \in 1..Len(nodes) : nodes[i].key = key
  THEN CHOOSE i \in 1..Len(nodes) : nodes[i].key = key
  ELSE 0

\* lines 425-429: nodeMap.set and adjacencyList.set for an intersection point
setNode(nodes, point) ==
  IF position(nodes, nodeKey(point)) = 0
  THEN Append(nodes, [key |-> nodeKey(point), point |-> point, adj |-> <<>>])
  ELSE [nodes EXCEPT ![position(nodes, nodeKey(point))] =
          [key |-> nodeKey(point), point |-> point, adj |-> <<>>]]

\* lines 436-443: an endpoint becomes a node unless its key is one already
addNode(nodes, point) ==
  IF position(nodes, nodeKey(point)) = 0
  THEN Append(nodes, [key |-> nodeKey(point), point |-> point, adj |-> <<>>])
  ELSE nodes

\* lines 446-447: adjacencyList.get(fromKey).push({node: toKey, segment})
connect(nodes, fromKey, toKey, segment) ==
  [nodes EXCEPT ![position(nodes, fromKey)].adj =
                  Append(@, [node |-> toKey, segment |-> segment])]

\* lines 432-448 for one segment
addSegment(nodes, segment) ==
  connect(connect(addNode(addNode(nodes, segment.start), segment.end),
                  nodeKey(segment.start), nodeKey(segment.end), segment),
          nodeKey(segment.end), nodeKey(segment.start), segment)

RECURSIVE setNodesFrom(_, _, _)
\* lines 424-429 from intersection i on
setNodesFrom(nodes, points, i) ==
  IF i > Len(points) THEN nodes
  ELSE The({ setNodesFrom(added, points, i + 1) : added \in {setNode(nodes, points[i])} })

RECURSIVE addSegmentsFrom(_, _, _)
\* lines 432-448 from segment i on
addSegmentsFrom(nodes, segs, i) ==
  IF i > Len(segs) THEN nodes
  ELSE The({ addSegmentsFrom(added, segs, i + 1) : added \in {addSegment(nodes, segs[i])} })

\* lines 420-448: the node map with the adjacency list of each node
graphOf(segs) ==
  The({ addSegmentsFrom(nodes, segs, 1) :
        nodes \in {setNodesFrom(<<>>, findIntersections(segs), 1)} })

\* nodeMap.get(key)
pointOf(nodes, key) == nodes[position(nodes, key)].point

\* lines 499-501, in degrees
turnAngle(incomingAngle, outgoingAngle) ==
  IF outgoingAngle - incomingAngle < -180 THEN outgoingAngle - incomingAngle + 360
  ELSE IF outgoingAngle - incomingAngle > 180 THEN outgoingAngle - incomingAngle - 360
  ELSE outgoingAngle - incomingAngle

RECURSIVE rightmostFrom(_, _, _, _, _, _, _)
\* lines 490-507: the forEach from connection i on
rightmostFrom(nodes, conns, i, currentPoint, incomingAngle, bestAngle, bestNext) ==
  IF i > Len(conns) THEN bestNext
  ELSE IF turnAngle(incomingAngle,
                    Atan2(pointOf(nodes, conns[i].node).y - currentPoint.y,
                          pointOf(nodes, conns[i].node).x - currentPoint.x)) > bestAngle
       THEN rightmostFrom(nodes, conns, i + 1, currentPoint, incomingAngle,
                          turnAngle(incomingAngle,
                                    Atan2(pointOf(nodes, conns[i].node).y - currentPoint.y,
                                          pointOf(nodes, conns[i].node).x - currentPoint.x)),
                          conns[i])
       ELSE rightmostFrom(nodes, conns, i + 1, currentPoint, incomingAngle,
                          bestAngle, bestNext)

\* a faulty choice: the first of the remaining neighbors, whatever the turn
chooseNextInOrder(nodes, nextConnections, currentPoint, prevPoint) == nextConnections[1]

\* lines 484-508: the connection the walk follows
chooseNext(nodes, nextConnections, currentPoint, prevPoint) ==
  IF Len(nextConnections) > 1
  THEN rightmostFrom(nodes, nextConnections, 1, currentPoint,
                     Atan2(currentPoint.y - prevPoint.y, currentPoint.x - prevPoint.x),
                     -180, nextConnections[1])
  ELSE nextConnections[1]

\* line 479: connections.filter(conn => conn.node !== prevKey)
notBack(connections, prevKey) == SelectSeq(connections, LAMBDA conn : conn.node # prevKey)

RECURSIVE walk(_, _, _, _, _, _, _, _)
\* lines 469-513: the walk from step on
walk(nodes, startKey, step, currentKey, prevKey, polygon, segmentPath, visited) ==
  IF step >= MaxWalkSteps \/ currentKey = startKey \/ currentKey \in visited
  THEN [currentKey |-> currentKey, points |-> polygon, segments |-> segmentPath]
  ELSE IF notBack(nodes[position(nodes, currentKey)].adj, prevKey) = <<>>
       THEN [currentKey |-> currentKey,
             points |-> Append(polygon, pointOf(nodes, currentKey)),
             segments |-> segmentPath]
       ELSE The({ walk(nodes, startKey, step + 1, bestNext.node, currentKey,
                       Append(polygon, pointOf(nodes, currentKey)),
                       Append(segmentPath, bestNext.segment),
                       visited \cup {currentKey}) :
                  bestNext \in {chooseNext(nodes,
                                           notBack(nodes[position(nodes, currentKey)].adj,
                                                   prevKey),
                                           pointOf(nodes, currentKey),
                                           pointOf(nodes, prevKey))} })

\* lines 457-520 for one neighbour of one node: the visited edges and the
\* polygons found so far, after the walk along that edge
traceEdge(nodes, n, k, found) ==
  IF <<nodes[n].key, nodes[n].adj[k].node>> \in found.visitedEdges THEN found
  ELSE The({ IF traced.currentKey = nodes[n].key /\ Len(traced.points) >= 3
             THEN [visitedEdges |-> found.visitedEdges
                                      \cup {<<nodes[n].key, nodes[n].adj[k].node>>},
                   polygons |-> Append(found.polygons,
                                       [points |-> traced.points,
                                        segments |-> traced.segments])]
             ELSE found :
             traced \in {walk(nodes, nodes[n].key, 0, nodes[n].adj[k].node,
                              nodes[n].key, <<nodes[n].point>>,
                              <<nodes[n].adj[k].segment>>, {})} })

RECURSIVE traceFrom(_, _, _, _)
\* lines 454-521: the two forEach loops from neighbour k of node n on
traceFrom(nodes, n, k, found) ==
  IF n > Len(nodes) THEN found.polygons
  ELSE IF k > Len(nodes[n].adj) THEN traceFrom(nodes, n + 1, 1, found)
  ELSE The({ traceFrom(nodes, n, k + 1, traced) : traced \in {traceEdge(nodes, n, k, found)} })

\* lines 451-521
foundPolygons(nodes) ==
  traceFrom(nodes, 1, 1, [visitedEdges |-> {}, polygons |-> <<>>])

RECURSIVE shoelaceFrom(_, _)
\* lines 529-532: the sum from vertex i on (1-based)
shoelaceFrom(polygon, i) ==
  IF i > Len(polygon) THEN 0
  ELSE polygon[i].x * polygon[(i % Len(polygon)) + 1].y
         - polygon[(i % Len(polygon)) + 1].x * polygon[i].y
         + shoelaceFrom(polygon, i + 1)

\* lines 528-533, times 8: twice the area, in half units squared
shoelace8(polygon) == Abs(shoelaceFrom(polygon, 1))

\* area < limit, the area in square units
areaBelow(polygon, limit) == shoelace8(polygon) < 8 * limit

\* lines 564-581: the vertex moved by insetDistance (half units) along the
\* sum of the two normals, each of length 10000; <<>> when avgLen is 0
alongNormals(currentPoint, insetDistance, sumX, sumY) ==
  IF Sqrt(sumX * sumX + sumY * sumY) > 0
  THEN <<Point(currentPoint.x + Round(insetDistance * sumX,
                                      Sqrt(sumX * sumX + sumY * sumY)),
               currentPoint.y + Round(insetDistance * sumY,
                                      Sqrt(sumX * sumX + sumY * sumY)))>>
  ELSE <<>>

\* lines 541-583 for vertex i (1-based): <<>> or <<the inset vertex>>
insetVertex(polygon, segmentPath, i) ==
  The({ IF v.len1 > 0 /\ v.len2 > 0
        THEN alongNormals(v.cur, v.width + 40,
                          Round(-(v.cur.y - v.prev.y) * 10000, v.len1)
                            + Round(-(v.next.y - v.cur.y) * 10000, v.len2),
                          Round((v.cur.x - v.prev.x) * 10000, v.len1)
                            + Round((v.next.x - v.cur.x) * 10000, v.len2))
        ELSE <<>> :
        v \in {[cur |-> polygon[i],
                next |-> polygon[(i % Len(polygon)) + 1],
                prev |-> polygon[((i - 2 + Len(polygon)) % Len(polygon)) + 1],
                width |-> segmentPath[Min(i, Len(segmentPath))].width,
                len1 |-> Sqrt(DistSq(polygon[i],
                                     polygon[((i - 2 + Len(polygon)) % Len(polygon)) + 1])),
                len2 |-> Sqrt(DistSq(polygon[(i % Len(polygon)) + 1], polygon[i]))]} })

RECURSIVE insetFrom(_, _, _)
\* lines 539-583 from vertex i on
insetFrom(polygon, segmentPath, i) ==
  IF i > Len(polygon) THEN <<>>
  ELSE insetVertex(polygon, segmentPath, i) \o insetFrom(polygon, segmentPath, i + 1)

\* a faulty filter: polygons of any area are processed
blockOfAnyArea(found) ==
  IF Len(found.points) < 3 THEN <<>>
  ELSE The({ IF Len(insetPolygon) >= 3 THEN <<[points |-> insetPolygon]>> ELSE <<>> :
             insetPolygon \in {insetFrom(found.points, found.segments, 1)} })

\* lines 524-591 for one found polygon: <<>> or <<block>>
blockOf(found) ==
  IF Len(found.points) < 3 \/ areaBelow(found.points, MinBlockArea) THEN <<>>
  ELSE The({ IF Len(insetPolygon) >= 3 THEN <<[points |-> insetPolygon]>> ELSE <<>> :
             insetPolygon \in {insetFrom(found.points, found.segments, 1)} })

RECURSIVE blocksFrom(_, _)
\* lines 524-591 from polygon i on
blocksFrom(polygons, i) ==
  IF i > Len(polygons) THEN <<>>
  ELSE blockOf(polygons[i]) \o blocksFrom(polygons, i + 1)

\* lines 407-594
findCityBlocks(segs) ==
  IF Len(segs) = 0 THEN <<>>
  ELSE The({ blocksFrom(polygons, 1) :
             polygons \in {The({ foundPolygons(nodes) : nodes \in {graphOf(segs)} })} })

(***************************************************************************)
(* State.                                                                  *)
(***************************************************************************)
VARIABLES
  seed,               \* the module-level RNG state (line 45)
  currentSeed,        \* React state (line 97)
  segmentLimit,       \* React state (line 93)
  segments,           \* React state: the last published RoadNetwork (line 91)
  buildings,          \* React state: the number of buildings placed (line 92)
  unifiedRoadNetwork, \* React state (line 123): <<>> for null, or <<network>>
  pc,                 \* "idle", or "growing" inside generateCity's loop
  useSeed,            \* generateCity's local (line 598)
  priorityQ,          \* generateCity's local (line 602)
  newSegments,        \* generateCity's local (line 603)
  minIndex,           \* the loop's local (line 630), 1-based; 0 before the first scan
  nextUid,            \* the next object identity
  effectPending,      \* the effect of line 854 is due (generateCity changed)
  postPending,        \* the effect of line 156 is due (segments changed)
  runs,               \* generateCity calls so far
  reference,          \* <<>>, or the seed, limit and network of one finished run
  workerInbox,        \* messages posted to the worker, not yet handled
  mainInbox,          \* responses posted by the worker, not yet handled
  errorEvents,        \* error events of the worker, not yet handled
  rawPosted,          \* messages posted to the worker by other scripts so far
  received,           \* <<>>, or the last response roadWorker.onmessage logged (line 131)
  blockInput,         \* the argument of a findCityBlocks call (line 407)
  blocks,             \* <<>> before the call returns, then <<the blocks returned>>
  lastCall,           \* <<>>, or the last call of seedRandom or random (lines 46-50):
                      \* its argument, the RNG state it found, the value returned
  draws,              \* the calls of random so far
  splitInput,         \* the argument of a buildUnifiedRoadNetwork call (worker line 22)
  modifiedSegments,   \* its local (worker line 24), in half units
  loopI,              \* the i of the split loops (worker line 27), 1-based
  loopJ,              \* the j of the split loops (worker line 28), 1-based
  splitPc,            \* "idle", "splitting" inside the split loops, "snapping" inside
                      \* the snap loops, or "done"
  splits,             \* the segments appended by the split pass so far
  returned,           \* <<>>, or <<the network the call returned>>
  scanGiven,          \* the arguments of a localConstraints call (line 208), as given
  scanSegment,        \* its argument segment, the candidate, as it is now
  scanExisting,       \* its argument existingSegments, as it is now
  scanIndex,          \* the position of other in existingSegments (line 209), 1-based
  scanPc,             \* "idle", "truncation" (line 211), "snap" (line 230) or "done"
  fired,              \* the checks that changed the candidate so far, in order
  goalsGiven,         \* <<>>, or the argument of a globalGoals call (line 279) as given
                      \* and the RNG state at the call
  goalsSegment,       \* its argument previousSegment, as it is now
  goalsBranches,      \* <<>> before the call returns, then <<the newBranches returned>>
  snapI,              \* the i of the snap loops (worker line 75), 1-based
  snapJ,              \* the j of the snap loops (worker line 76), 1-based
  endpoints,          \* <<>>, or the array of worker lines 81-86 for the pair (i, j)
  snapA,              \* the a of the combination loops (worker line 88), 1-based
  snapB,              \* the b of the combination loops (worker line 89), 1-based
  nodeMap,            \* findCityBlocks' nodeMap with the adjacencyList entry of each
                      \* node (lines 421-422), in insertion order
  startIndex,         \* the position in nodeMap of startKey (line 454), 1-based
  neighborIndex,      \* the position in neighbors of nextKey (line 457), 1-based
  visitedEdges,       \* findCityBlocks' local (line 451): pairs <<startKey, nextKey>>
  tracedPolygons,     \* findCityBlocks' local foundPolygons (line 452)
  seedEdges,          \* the edges that have seeded a trace so far, in order
  polygon,            \* the trace's local (line 462)
  segmentPath,        \* the trace's local (line 463)
  visited,            \* the trace's local (line 464)
  currentKey,         \* the trace's local (line 465)
  prevKey,            \* the trace's local (line 466)
  walkStep,           \* the step of the walk (line 469)
  tracePc             \* "idle", "seeding" at a neighbor (line 457), "walking" at the
                      \* test of line 469, "broke" after a break, or "done"

growthVars == <<seed, currentSeed, segmentLimit, segments, buildings, pc, useSeed,
                priorityQ, newSegments, minIndex, nextUid, effectPending,
                postPending, runs, reference>>

workerVars == <<workerInbox, mainInbox, errorEvents, rawPosted, received>>

\* the state of the functions that are followed on their own
blockVars == <<blockInput, blocks>>

rngVars == <<lastCall, draws>>

splitVars == <<splitInput, modifiedSegments, loopI, loopJ, splitPc, splits, returned>>

scanVars == <<scanGiven, scanSegment, scanExisting, scanIndex, scanPc, fired>>

goalVars == <<goalsGiven, goalsSegment, goalsBranches>>

snapVars == <<snapI, snapJ, endpoints, snapA, snapB>>

traceVars == <<nodeMap, startIndex, neighborIndex, visitedEdges, tracedPolygons, seedEdges,
               polygon, segmentPath, visited, currentKey, prevKey, walkStep, tracePc>>

unitVars == <<blockVars, rngVars, splitVars, scanVars, goalVars, snapVars, traceVars>>

vars == <<growthVars, unifiedRoadNetwork, workerVars, unitVars>>

\* a faulty seedRandom: the RNG state is left as it is
keepsState(state, s) == state

\* lines 46-48: the RNG state after seedRandom(s); state is the one it replaces
seedRandom(state, s) == s

\* lines 606-624
rootSegment ==
  [createSegment(Point(0, 0), Point(HIGHWAY_SEGMENT_LENGTH, 0), 0, TRUE)
     EXCEPT !.uid = 1, !.b = <<2>>]

oppositeSegment ==
  [createSegment(Point(-HIGHWAY_SEGMENT_LENGTH, 0), Point(0, 0), 0, TRUE)
     EXCEPT !.uid = 2, !.f = <<1>>]

\* a faulty loop condition: the loop ends one segment early
loopConditionEarly(q, accepted, limit) == Len(q) > 0 /\ accepted + 1 < limit

\* a faulty loop condition: one segment too many
loopConditionInclusive(q, accepted, limit) == Len(q) > 0 /\ accepted <= limit

\* line 627
loopCondition(q, accepted, limit) == Len(q) > 0 /\ accepted < limit

\* a faulty comparison: the last of the candidates with the smallest t wins
lessOrEqual(t, minT) == minT = <<>> \/ t <= minT[1]

\* seg.t < minT, with <<>> for Infinity
lessThan(t, minT) == minT = <<>> \/ t < minT[1]

RECURSIVE scanMin(_, _, _, _)
\* lines 632-637: the forEach from position i on
scanMin(q, i, minT, index) ==
  IF i > Len(q) THEN index
  ELSE IF lessThan(q[i].t, minT) THEN scanMin(q, i + 1, <<q[i].t>>, i)
       ELSE scanMin(q, i + 1, minT, index)

\* a faulty scan: the candidate at the head of the queue, whatever its t
findFirstIndex(q) == 1

\* lines 629-637; minIndex starts at the first position
findMinIndex(q) == scanMin(q, 1, <<>>, 1)

\* priorityQ.splice(minIndex, 1)
splice(q, i) == SubSeq(q, 1, i - 1) \o SubSeq(q, i + 1, Len(q))

\* a faulty branch time: the step of 1 is left out
branchTNoStep(currentT, localDelay) == currentT + localDelay

\* line 650
branchT(currentT, localDelay) == currentT + 1 + localDelay

RECURSIVE placeBuildings(_, _, _)
\* lines 674-695: n placements left; <<RNG state, buildings placed>>
placeBuildings(n, s, built) ==
  IF n = 0 THEN <<s, built>>
  ELSE IF random(s).value > 5000
       THEN placeBuildings(n - 1, s + 6, built + 1)
       ELSE placeBuildings(n - 1, s + 1, built)

RECURSIVE dress(_, _, _, _)
\* lines 664-698 from segment i on; <<RNG state, buildings placed>>
dress(segs, i, s, built) ==
  IF i > Len(segs) THEN <<s, built>>
  ELSE IF ~segs[i].highway
       THEN IF random(s).value > 6000
            THEN LET placed == placeBuildings(2 * (segs[i].length \div 1000), s + 1, built)
                 IN dress(segs, i + 1, placed[1], placed[2])
            ELSE dress(segs, i + 1, s + 1, built)
       ELSE dress(segs, i + 1, s, built)

\* line 657
assignIds(segs) == [i \in 1..Len(segs) |-> [segs[i] EXCEPT !.id = i - 1]]

\* line 157-167: the message the component posts
postedMessage(segs) ==
  WithSegments([i \in 1..Len(segs) |->
                  [start |-> segs[i].start, end |-> segs[i].end,
                   width |-> segs[i].width, highway |-> segs[i].highway]])

\* a faulty handler: the stored network is whatever the response carries
storesAnyResponse(current, data) == data.unifiedNetwork

\* lines 130-141: roadWorker.onmessage; the unified network after a response
roadWorkerOnMessage(current, data) ==
  IF data.success /\ data.unifiedNetwork # <<>> THEN data.unifiedNetwork ELSE current

\* the seeds of the model: the default of line 97 and those Regenerate gives
Seeds == {DefaultSeed} \cup FirstSeed..(FirstSeed + SeedCount - 1)

\* segment lists other scripts may post: well formed, or with an element
\* that lacks its points
SampleSegments ==
  { [start |-> Point(0, 0), end |-> Point(100, 0), width |-> 6, highway |-> FALSE],
    [start |-> Point(60, -40), end |-> Point(60, 90), width |-> 16, highway |-> TRUE] }

\* a street and a highway that leaves it at its middle and ends 36 units
\* from the street's end
JunctionList ==
  << [start |-> Point(0, 0), end |-> Point(200, 0), width |-> 6, highway |-> FALSE],
     [start |-> Point(100, 0), end |-> Point(220, 30), width |-> 16, highway |-> TRUE] >>

SampleLists == UNION { [1..n -> SampleSegments] : n \in 0..MaxListLen } \cup {JunctionList}

RawMessages ==
  {NoData, NoSegments}
    \cup { WithSegments(list) : list \in SampleLists }
    \cup { WithSegments(Append(list, [width |-> 6, highway |-> FALSE])) :
             list \in { l \in SampleLists : Len(l) < 2 } }

(***************************************************************************)
(* Actions.                                                                *)
(***************************************************************************)
\* the component after its first render, the worker created (lines 91-124).
\* currentSeed and segmentLimit are React state that Regenerate and the slider
\* set (defaults 12345 and 2000); the limits of the model are scaled down
Mounted(seeds, limits) ==
  /\ seed = 1
  /\ currentSeed \in seeds
  /\ segmentLimit \in limits
  /\ segments = <<>>
  /\ buildings = 0
  /\ unifiedRoadNetwork = <<>>
  /\ pc = "idle"
  /\ useSeed = 0
  /\ priorityQ = <<>>
  /\ newSegments = <<>>
  /\ minIndex = 0
  /\ nextUid = 1
  /\ effectPending = TRUE
  /\ postPending = FALSE
  /\ runs = 0
  /\ reference = <<>>
  /\ workerInbox = <<>>
  /\ mainInbox = <<>>
  /\ errorEvents = 0
  /\ rawPosted = 0
  /\ received = <<>>

\* no function is followed on its own
BlocksIdle ==
  /\ blockInput = <<>>
  /\ blocks = <<>>

RngIdle ==
  /\ lastCall = <<>>
  /\ draws = 0

SplitIdle ==
  /\ splitInput = <<>>
  /\ modifiedSegments = <<>>
  /\ loopI = 0
  /\ loopJ = 0
  /\ splitPc = "idle"
  /\ splits = 0
  /\ returned = <<>>

ScanIdle ==
  /\ scanGiven = <<>>
  /\ scanSegment = <<>>
  /\ scanExisting = <<>>
  /\ scanIndex = 0
  /\ scanPc = "idle"
  /\ fired = <<>>

GoalsIdle ==
  /\ goalsGiven = <<>>
  /\ goalsSegment = <<>>
  /\ goalsBranches = <<>>

SnapIdle ==
  /\ snapI = 0
  /\ snapJ = 0
  /\ endpoints = <<>>
  /\ snapA = 0
  /\ snapB = 0

TraceIdle ==
  /\ nodeMap = <<>>
  /\ startIndex = 0
  /\ neighborIndex = 0
  /\ visitedEdges = {}
  /\ tracedPolygons = <<>>
  /\ seedEdges = <<>>
  /\ polygon = <<>>
  /\ segmentPath = <<>>
  /\ visited = {}
  /\ currentKey = <<>>
  /\ prevKey = <<>>
  /\ walkStep = 0
  /\ tracePc = "idle"

UnitsIdle ==
  BlocksIdle /\ RngIdle /\ SplitIdle /\ ScanIdle /\ GoalsIdle /\ SnapIdle /\ TraceIdle

Init == Mounted(Seeds, 0..MaxLimit) /\ UnitsIdle

\* lines 597-624: generateCity(newSeed) up to the loop; newSeed = 0 stands
\* for a call without argument (0 and undefined are both falsy)
BeginGenerate(newSeed) ==
  /\ pc = "idle"
  /\ runs < MaxRuns
  /\ useSeed' = IF newSeed # 0 THEN newSeed ELSE currentSeed
  /\ seed' = seedRandom(seed, useSeed')
  /\ currentSeed' = useSeed'
  /\ priorityQ' = <<rootSegment, oppositeSegment>>
  /\ newSegments' = <<>>
  /\ minIndex' = 0
  /\ nextUid' = 3
  /\ pc' = "growing"
  /\ runs' = runs + 1
  /\ effectPending' = (currentSeed' # currentSeed)
  /\ UNCHANGED <<segmentLimit, segments, buildings, postPending, reference,
                 unifiedRoadNetwork, workerVars, unitVars>>

\* line 854: useEffect(() => { generateCity(); }, [generateCity]); effects
\* run in the order of their declaration, the one of line 156 first
EffectGenerate == effectPending /\ ~postPending /\ BeginGenerate(0)

\* line 933: the Regenerate button, generateCity(Date.now())
Regenerate ==
  /\ ~effectPending
  /\ ~postPending
  /\ \E s \in Seeds : BeginGenerate(s)

\* line 909: the slider; generateCity is rebuilt (line 701), so its effect is due
SetSegmentLimit ==
  /\ pc = "idle"
  /\ ~effectPending
  /\ ~postPending
  /\ runs < MaxRuns
  /\ \E l \in 1..SessionLimit :
       /\ l # segmentLimit
       /\ segmentLimit' = l
  /\ effectPending' = TRUE
  /\ UNCHANGED <<seed, currentSeed, segments, buildings, pc, useSeed, priorityQ,
                 newSegments, minIndex, nextUid, postPending, runs, reference,
                 unifiedRoadNetwork, workerVars, unitVars>>

\* lines 645-652: the candidate is accepted; branch.t = currentSegment.t + 1 + branch.t
accept(currentT, rest, existing, goals, uid) ==
  [priorityQ |->
     rest \o [i \in 1..Len(goals.newBranches) |->
                [goals.newBranches[i] EXCEPT !.t = branchT(currentT, @)]],
   newSegments |-> Append(existing, goals.previousSegment),
   seed |-> goals.seed,
   nextUid |-> uid + Len(goals.newBranches)]

\* lines 642-653: local is the result of localConstraints
constrained(currentSegment, rest, local, s, uid) ==
  IF local.accepted
  THEN The({ accept(currentSegment.t, rest, local.existing, goals, uid) :
             goals \in {globalGoals(local.segment, s, uid)} })
  ELSE [priorityQ |-> rest, newSegments |-> local.existing,
        seed |-> s, nextUid |-> uid]

\* lines 639-653: the body of the loop once the minimum is found
iteration(q, accepted, s, uid, index) ==
  The({ constrained(q[index], splice(q, index), local, s, uid) :
        local \in {localConstraints(q[index], accepted)} })

\* lines 627-654: one iteration of the main generation loop
LoopStep ==
  /\ pc = "growing"
  /\ loopCondition(priorityQ, Len(newSegments), segmentLimit)
  /\ \E index \in {findMinIndex(priorityQ)} :
       \E step \in {iteration(priorityQ, newSegments, seed, nextUid, index)} :
         /\ minIndex' = index
         /\ priorityQ' = step.priorityQ
         /\ newSegments' = step.newSegments
         /\ seed' = step.seed
         /\ nextUid' = step.nextUid
  /\ UNCHANGED <<currentSeed, segmentLimit, segments, buildings, pc, useSeed,
                 effectPending, postPending, runs, reference,
                 unifiedRoadNetwork, workerVars, unitVars>>

\* lines 656-700: the loop has ended; ids, setSegments, the building dressing
FinishGenerate ==
  /\ pc = "growing"
  /\ ~loopCondition(priorityQ, Len(newSegments), segmentLimit)
  /\ segments' = assignIds(newSegments)
  /\ \E dressed \in {dress(newSegments, 1, seed, 0)} :
       /\ seed' = dressed[1]
       /\ buildings' = dressed[2]
  /\ reference' \in
       IF reference = <<>>
       THEN {<<>>, <<[seed |-> useSeed, limit |-> segmentLimit, run |-> runs,
                      network |-> assignIds(newSegments)]>>}
       ELSE {reference}
  /\ pc' = "idle"
  /\ postPending' = TRUE
  /\ UNCHANGED <<currentSeed, segmentLimit, useSeed, priorityQ, newSegments,
                 minIndex, nextUid, effectPending, runs,
                 unifiedRoadNetwork, workerVars, unitVars>>

\* lines 156-169: the effect on [worker, segments]
PostSegments ==
  /\ pc = "idle"
  /\ postPending
  /\ postPending' = FALSE
  /\ workerInbox' = IF Len(segments) > 0
                    THEN Append(workerInbox, postedMessage(segments))
                    ELSE workerInbox
  /\ UNCHANGED <<seed, currentSeed, segmentLimit, segments, buildings, pc, useSeed,
                 priorityQ, newSegments, minIndex, nextUid, effectPending, runs,
                 reference, unifiedRoadNetwork, mainInbox, errorEvents, rawPosted,
                 received, unitVars>>

\* another script posts a message to the worker
PostRaw ==
  /\ rawPosted < MaxMessages
  /\ \E m \in RawMessages : workerInbox' = Append(workerInbox, m)
  /\ rawPosted' = rawPosted + 1
  /\ UNCHANGED <<growthVars, unifiedRoadNetwork, mainInbox, errorEvents, received, unitVars>>

\* a faulty queue: a response is handled before those posted earlier
postMessageAhead(inbox, posted) == posted \o inbox

\* road-network-worker.js lines 8 and 15: self.postMessage; the main thread
\* handles the responses in the order of their posting
postMessage(inbox, posted) == inbox \o posted

\* road-network-worker.js lines 2-20: the worker handles its next message
WorkerOnMessage ==
  /\ workerInbox # <<>>
  /\ \E result \in {onmessage(Head(workerInbox))} :
       /\ mainInbox' = postMessage(mainInbox, result.posted)
       /\ errorEvents' = IF result.uncaught THEN errorEvents + 1 ELSE errorEvents
  /\ workerInbox' = Tail(workerInbox)
  /\ UNCHANGED <<growthVars, unifiedRoadNetwork, rawPosted, received, unitVars>>

\* lines 130-141: the component handles the worker's next response
MainOnMessage ==
  /\ pc = "idle"
  /\ mainInbox # <<>>
  /\ unifiedRoadNetwork' = roadWorkerOnMessage(unifiedRoadNetwork, Head(mainInbox))
  /\ mainInbox' = Tail(mainInbox)
  /\ received' = <<Head(mainInbox)>>
  /\ UNCHANGED <<growthVars, workerInbox, errorEvents, rawPosted, unitVars>>

\* lines 143-145: roadWorker.onerror logs the error event
MainOnError ==
  /\ pc = "idle"
  /\ errorEvents > 0
  /\ errorEvents' = errorEvents - 1
  /\ UNCHANGED <<growthVars, unifiedRoadNetwork, workerInbox, mainInbox, rawPosted,
                 received, unitVars>>

(***************************************************************************)
(* Spec: one generation, from the first render to the posted network.      *)
(***************************************************************************)
Next ==
  \/ EffectGenerate
  \/ LoopStep
  \/ FinishGenerate
  \/ PostSegments

Spec == Init /\ [][Next]_vars

\* generateCity runs to completion once called, and effects are flushed
FairSpec == Spec /\ WF_vars(Next)

(***************************************************************************)
(* SessionSpec: the component in use (Regenerate, the slider) with its     *)
(* worker.                                                                 *)
(***************************************************************************)
SessionInit == Mounted({DefaultSeed}, 1..SessionLimit) /\ UnitsIdle

SessionNext ==
  \/ EffectGenerate
  \/ Regenerate
  \/ SetSegmentLimit
  \/ LoopStep
  \/ FinishGenerate
  \/ PostSegments
  \/ WorkerOnMessage
  \/ MainOnMessage

SessionSpec == SessionInit /\ [][SessionNext]_vars

(***************************************************************************)
(* WorkerSpec: the worker and the component's handlers under arbitrary     *)
(* messages.                                                               *)
(***************************************************************************)
WorkerInit == Mounted({DefaultSeed}, {0}) /\ UnitsIdle

WorkerNext ==
  \/ PostRaw
  \/ WorkerOnMessage
  \/ MainOnMessage
  \/ MainOnError

WorkerSpec == WorkerInit /\ [][WorkerNext]_vars

(***************************************************************************)
(* BlocksSpec: findCityBlocks applied to small road networks.              *)
(***************************************************************************)
\* the sides of the sample rectangles are 100, 130, ... units
MaxSideSteps == 3

BlockSides == { 70 + 30 * k : k \in 1..MaxSideSteps }

\* a road between two points given in half units (width: lines 196-197)
road(x1, y1, x2, y2, highway) ==
  [start |-> Point(x1, y1), end |-> Point(x2, y2),
   width |-> IF highway THEN 16 ELSE 6, highway |-> highway]

\* the four sides of a rectangle of w by h units; with jog = 1 the first
\* side ends half a unit before the corner
ring(w, h, highway, jog) ==
  << road(0, 0, 2 * w - jog, 0, highway),
     road(2 * w, 0, 2 * w, 2 * h, highway),
     road(2 * w, 2 * h, 0, 2 * h, FALSE),
     road(0, 2 * h, 0, 0, FALSE) >>

\* the same rectangle with a road across its middle
dividedRing(w, h, highway, jog) ==
  << road(0, 0, w, 0, highway),
     road(w, 0, 2 * w - jog, 0, highway),
     road(2 * w, 0, 2 * w, 2 * h, highway),
     road(2 * w, 2 * h, w, 2 * h, FALSE),
     road(w, 2 * h, 0, 2 * h, FALSE),
     road(0, 2 * h, 0, 0, FALSE),
     road(w, 0, w, 2 * h, highway) >>

SampleNetworks ==
  { ring(w, h, highway, jog) :
      w \in BlockSides, h \in BlockSides, highway \in BOOLEAN, jog \in {0, 1} }
    \cup { dividedRing(w, h, highway, jog) :
             w \in BlockSides, h \in BlockSides, highway \in BOOLEAN, jog \in {0, 1} }

BlocksInit ==
  /\ Mounted({DefaultSeed}, {0})
  /\ TraceIdle
  /\ blockInput \in SampleNetworks
  /\ blocks = <<>>
  /\ RngIdle
  /\ SplitIdle
  /\ ScanIdle
  /\ GoalsIdle
  /\ SnapIdle

\* lines 407-594: the call returns
FindCityBlocks ==
  /\ blocks = <<>>
  /\ blocks' = <<findCityBlocks(blockInput)>>
  /\ UNCHANGED <<traceVars, growthVars, unifiedRoadNetwork, workerVars, blockInput, rngVars, splitVars, scanVars, goalVars, snapVars>>

BlocksNext == FindCityBlocks

BlocksSpec == BlocksInit /\ [][BlocksNext]_vars

(***************************************************************************)
(* RngSpec: the seeded random number generator (lines 45-50) on its own.   *)
(***************************************************************************)
\* the calls of random in a run of RngSpec
MaxDraws == 6

RngInit == Mounted({DefaultSeed}, {0}) /\ UnitsIdle

\* the variables of generateCity other than the RNG state
notSeed == <<currentSeed, segmentLimit, segments, buildings, pc, useSeed, priorityQ,
             newSegments, minIndex, nextUid, effectPending, postPending, runs,
             reference>>

\* line 46: seedRandom(s)
SeedRandom ==
  /\ \E s \in Seeds :
       /\ seed' = seedRandom(seed, s)
       /\ lastCall' = <<[call |-> "seedRandom", arg |-> s, from |-> seed, value |-> 0]>>
  /\ UNCHANGED <<traceVars, notSeed, unifiedRoadNetwork, workerVars, blockVars, draws, splitVars, scanVars, goalVars, snapVars>>

\* lines 47-50: random()
Random ==
  /\ draws < MaxDraws
  /\ \E drawn \in {random(seed)} :
       /\ seed' = drawn.seed
       /\ lastCall' = <<[call |-> "random", arg |-> 0, from |-> seed,
                        value |-> drawn.value]>>
  /\ draws' = draws + 1
  /\ UNCHANGED <<traceVars, notSeed, unifiedRoadNetwork, workerVars, blockVars, splitVars, scanVars, goalVars, snapVars>>

RngNext ==
  \/ SeedRandom
  \/ Random

RngSpec == RngInit /\ [][RngNext]_vars

(***************************************************************************)
(* SplitSpec: buildUnifiedRoadNetwork (road-network-worker.js:22-167),     *)
(* its split loops one pair at a time.                                     *)
(***************************************************************************)
\* the longest list given to buildUnifiedRoadNetwork
MaxSplitList == 3

\* the split loops stop appending at this many segments
MaxPieces == 20

\* two streets, and two highways that cross them and each other
CrossingSegments ==
  { [start |-> Point(0, 0), end |-> Point(200, 0), width |-> 6, highway |-> FALSE],
    [start |-> Point(0, 60), end |-> Point(200, 60), width |-> 6, highway |-> FALSE],
    [start |-> Point(50, -50), end |-> Point(50, 110), width |-> 16, highway |-> TRUE],
    [start |-> Point(0, -20), end |-> Point(200, 80), width |-> 16, highway |-> TRUE] }

CrossingLists == UNION { [1..n -> CrossingSegments] : n \in 0..MaxSplitList }

\* lines 22-28: the call, up to the first test of the outer loop
SplitInit ==
  /\ Mounted({DefaultSeed}, {0})
  /\ TraceIdle
  /\ BlocksIdle
  /\ RngIdle
  /\ ScanIdle
  /\ GoalsIdle
  /\ SnapIdle
  /\ splitInput \in CrossingLists
  /\ modifiedSegments = copyOf(splitInput)
  /\ loopI = 1
  /\ loopJ = 2
  /\ splitPc = "splitting"
  /\ splits = 0
  /\ returned = <<>>

\* a faulty loop test: the length of the list the call was given
inInput(k) == k <= Len(splitInput)

\* lines 27, 28: i < modifiedSegments.length and j < modifiedSegments.length,
\* the length read at every test; k is 1-based
inList(k) == k <= Len(modifiedSegments)

\* lines 28-68: one turn of the inner loop
SplitPair ==
  /\ splitPc = "splitting"
  /\ inList(loopI)
  /\ inList(loopJ)
  /\ \E after \in {splitPair(modifiedSegments, loopI, loopJ)} :
       /\ Len(after) <= MaxPieces
       /\ modifiedSegments' = after
       /\ splits' = splits + Len(after) - Len(modifiedSegments)
  /\ loopJ' = loopJ + 1
  /\ UNCHANGED <<traceVars, growthVars, unifiedRoadNetwork, workerVars, blockVars, rngVars, scanVars, goalVars, snapVars,
                 splitInput, loopI, splitPc, returned>>

\* lines 27-28: the inner loop ends, i++ and j = i + 1
NextOuter ==
  /\ splitPc = "splitting"
  /\ inList(loopI)
  /\ ~inList(loopJ)
  /\ loopI' = loopI + 1
  /\ loopJ' = loopI + 2
  /\ UNCHANGED <<traceVars, growthVars, unifiedRoadNetwork, workerVars, blockVars, rngVars, scanVars, goalVars, snapVars,
                 splitInput, modifiedSegments, splitPc, splits, returned>>

\* lines 27 and 75-166: the outer loop ends; the snap pass and the grouping,
\* loops over a list that no longer grows, and the return
FinishBuild ==
  /\ splitPc = "splitting"
  /\ ~inList(loopI)
  /\ \E snapped \in {snapFrom(modifiedSegments, 1, 2)} :
       /\ modifiedSegments' = snapped
       /\ returned' = <<unifiedNetworkOf(snapped)>>
  /\ splitPc' = "done"
  /\ UNCHANGED <<traceVars, growthVars, unifiedRoadNetwork, workerVars, blockVars, rngVars, scanVars, goalVars, snapVars,
                 splitInput, loopI, loopJ, splits>>

SplitNext ==
  \/ SplitPair
  \/ NextOuter
  \/ FinishBuild

SplitSpec == SplitInit /\ [][SplitNext]_vars

\* the call is synchronous: it goes on while it has a step to take
SplitFairSpec == SplitSpec /\ WF_vars(SplitNext)

(***************************************************************************)
(* ScanSpec: localConstraints (city-generator.tsx:208-247), one check at a *)
(* time.                                                                   *)
(***************************************************************************)
\* the longest list of accepted segments given to localConstraints
MaxScanList == 2

\* candidates: a street and a highway from the origin along the x axis
SampleCandidates ==
  { [createSegment(Point(0, 0), Point(300, 0), 1, FALSE) EXCEPT !.uid = 10],
    [createSegment(Point(0, 0), Point(400, 0), 0, TRUE) EXCEPT !.uid = 10] }

\* accepted segments: one crossing 100 units from the candidate's start, one
\* crossing at exactly 30, one crossing at 200 that starts 20 units from the
\* crossing, one starting exactly 50 units from the street's end, a short one
\* with both ends near the street's end, one ending near the street's end
SampleAccepted ==
  { createSegment(Point(100, -100), Point(100, 100), 0, TRUE),
    createSegment(Point(30, -100), Point(30, 100), 0, FALSE),
    createSegment(Point(200, -20), Point(200, 200), 0, FALSE),
    createSegment(Point(340, 30), Point(500, 30), 0, FALSE),
    createSegment(Point(320, 10), Point(330, 20), 0, FALSE),
    createSegment(Point(500, 0), Point(310, 20), 0, TRUE) }

\* the accepted lists: the uid of an accepted segment is its position
AcceptedLists ==
  { [i \in 1..Len(list) |-> [list[i] EXCEPT !.uid = i]] :
      list \in UNION { [1..n -> SampleAccepted] : n \in 0..MaxScanList } }

\* line 208: the call
ScanInit ==
  /\ Mounted({DefaultSeed}, {0})
  /\ TraceIdle
  /\ BlocksIdle
  /\ RngIdle
  /\ SplitIdle
  /\ GoalsIdle
  /\ SnapIdle
  /\ scanSegment \in SampleCandidates
  /\ scanExisting \in AcceptedLists
  /\ scanGiven = <<scanSegment, scanExisting>>
  /\ scanIndex = 1
  /\ scanPc = "truncation"
  /\ fired = <<>>

\* the checks that fired, with the one at other as check if it changed the
\* candidate
firedWith(check, before, after) ==
  IF after # before
  THEN Append(fired, [index |-> scanIndex, check |-> check, end |-> after.end])
  ELSE fired

\* lines 210-227: the intersection check against other
TruncationStep ==
  /\ scanPc = "truncation"
  /\ scanIndex <= Len(scanExisting)
  /\ \E pair \in {truncationCheck(scanSegment, scanExisting[scanIndex])} :
       /\ scanSegment' = pair[1]
       /\ scanExisting' = [scanExisting EXCEPT ![scanIndex] = pair[2]]
       /\ fired' = firedWith("truncation", scanSegment, pair[1])
  /\ scanPc' = "snap"
  /\ UNCHANGED <<traceVars, growthVars, unifiedRoadNetwork, workerVars, blockVars, rngVars,
                 splitVars, goalVars, snapVars, scanGiven, scanIndex>>

\* lines 229-243: the proximity check against other, then the next other
SnapStep ==
  /\ scanPc = "snap"
  /\ \E pair \in {snapCheck(scanSegment, scanExisting[scanIndex])} :
       /\ scanSegment' = pair[1]
       /\ scanExisting' = [scanExisting EXCEPT ![scanIndex] = pair[2]]
       /\ fired' = firedWith("snap", scanSegment, pair[1])
  /\ scanPc' = "truncation"
  /\ scanIndex' = scanIndex + 1
  /\ UNCHANGED <<traceVars, growthVars, unifiedRoadNetwork, workerVars, blockVars, rngVars,
                 splitVars, goalVars, snapVars, scanGiven>>

\* lines 209 and 246: the list is exhausted, return true
ScanReturn ==
  /\ scanPc = "truncation"
  /\ scanIndex > Len(scanExisting)
  /\ scanPc' = "done"
  /\ UNCHANGED <<traceVars, growthVars, unifiedRoadNetwork, workerVars, blockVars, rngVars,
                 splitVars, goalVars, snapVars, scanGiven, scanSegment, scanExisting, scanIndex, fired>>

ScanNext ==
  \/ TruncationStep
  \/ SnapStep
  \/ ScanReturn

ScanSpec == ScanInit /\ [][ScanNext]_vars

\* the call is synchronous: it goes on while it has a step to take
ScanFairSpec == ScanSpec /\ WF_vars(ScanNext)


(***************************************************************************)
(* GoalsSpec: globalGoals (city-generator.tsx:279-387) applied to one      *)
(* accepted segment, the RNG in a state that seedRandom and random() left. *)
(***************************************************************************)
\* the ends of the sample segments; the population is at most 0.2 at the
\* first two (0.156 and 0.088) and above it at the others (0.243 and more)
SampleEnds ==
  { Point(0, 600), Point(1200, 200), Point(0, -600), Point(600, 400),
    Point(300, -300), Point(300, 0) }

\* their directions, in degrees
SampleDirs == {0, 37, 90}

\* a segment of the given length that ends at end in direction dir
endingAt(end, dir, len, highway) ==
  [createSegment(Advance(end, dir + 180, len), end, 0, highway) EXCEPT !.uid = 1]

\* accepted segments: streets and highways, as created or severed
SamplePrevious ==
  { [endingAt(end, dir, IF highway THEN HIGHWAY_SEGMENT_LENGTH
                                   ELSE DEFAULT_SEGMENT_LENGTH, highway)
       EXCEPT !.severed = severed] :
      end \in SampleEnds, dir \in SampleDirs, highway \in BOOLEAN, severed \in BOOLEAN }

GoalsInit ==
  /\ Mounted({DefaultSeed}, {0})
  /\ TraceIdle
  /\ BlocksIdle
  /\ RngIdle
  /\ SplitIdle
  /\ ScanIdle
  /\ SnapIdle
  /\ goalsGiven = <<>>
  /\ goalsSegment \in SamplePrevious
  /\ goalsBranches = <<>>

\* lines 279-387: the call returns; its branches are the objects 2, 3, ...
GlobalGoals ==
  /\ goalsBranches = <<>>
  /\ goalsGiven' = <<goalsSegment, seed>>
  /\ \E goals \in {globalGoals(goalsSegment, seed, 2)} :
       /\ goalsBranches' = <<goals.newBranches>>
       /\ goalsSegment' = goals.previousSegment
       /\ seed' = goals.seed
  /\ UNCHANGED <<traceVars, notSeed, unifiedRoadNetwork, workerVars, blockVars, rngVars,
                 splitVars, scanVars, snapVars>>

\* the calls of seedRandom and random() before the call of globalGoals
SeedBeforeGoals == goalsBranches = <<>> /\ SeedRandom

DrawBeforeGoals == goalsBranches = <<>> /\ Random

GoalsNext ==
  \/ SeedBeforeGoals
  \/ DrawBeforeGoals
  \/ GlobalGoals

GoalsSpec == GoalsInit /\ [][GoalsNext]_vars

(***************************************************************************)
(* SnapSpec: the snap pass of buildUnifiedRoadNetwork                      *)
(* (road-network-worker.js:73-116), one endpoint combination at a time,    *)
(* on the list the split pass leaves.                                      *)
(***************************************************************************)
\* the longest list given to buildUnifiedRoadNetwork
MaxSnapList == 2

\* a street; a short street with both ends within 50 units of the first
\* one's start; a short highway whose end is within 50 units of the first
\* street's start but not of the point its own start is snapped to; a street
\* that starts 40 units from the first one's end; a street far from all
NearSegments ==
  { [start |-> Point(0, 0), end |-> Point(200, 0), width |-> 6, highway |-> FALSE],
    [start |-> Point(30, 10), end |-> Point(-30, 10), width |-> 6, highway |-> FALSE],
    [start |-> Point(40, 0), end |-> Point(-40, 0), width |-> 16, highway |-> TRUE],
    [start |-> Point(200, 40), end |-> Point(400, 40), width |-> 6, highway |-> FALSE],
    [start |-> Point(0, 300), end |-> Point(200, 300), width |-> 6, highway |-> FALSE] }

NearLists == UNION { [1..n -> NearSegments] : n \in 0..MaxSnapList }

\* lines 22-75: the call, the split pass done, up to the first test of the
\* outer snap loop
SnapInit ==
  /\ Mounted({DefaultSeed}, {0})
  /\ TraceIdle
  /\ BlocksIdle
  /\ RngIdle
  /\ ScanIdle
  /\ GoalsIdle
  /\ splitInput \in NearLists
  /\ modifiedSegments = splitFrom(copyOf(splitInput), 1, 2)
  /\ loopI = Len(modifiedSegments) + 1
  /\ loopJ = Len(modifiedSegments) + 1
  /\ splitPc = "snapping"
  /\ splits = Len(modifiedSegments) - Len(splitInput)
  /\ returned = <<>>
  /\ snapI = 1
  /\ snapJ = 2
  /\ endpoints = <<>>
  /\ snapA = 0
  /\ snapB = 0

\* lines 76-89: a turn of the inner loop begins; the array endpoints holds
\* the four points as they are now
ReadEndpoints ==
  /\ splitPc = "snapping"
  /\ endpoints = <<>>
  /\ snapI <= Len(modifiedSegments)
  /\ snapJ <= Len(modifiedSegments)
  /\ endpoints' = << [seg |-> snapI, point |-> modifiedSegments[snapI].start, isStart |-> TRUE],
                     [seg |-> snapI, point |-> modifiedSegments[snapI].end, isStart |-> FALSE],
                     [seg |-> snapJ, point |-> modifiedSegments[snapJ].start, isStart |-> TRUE],
                     [seg |-> snapJ, point |-> modifiedSegments[snapJ].end, isStart |-> FALSE] >>
  /\ snapA' = 1
  /\ snapB' = 3
  /\ UNCHANGED <<traceVars, growthVars, unifiedRoadNetwork, workerVars, blockVars, rngVars, scanVars,
                 goalVars, splitVars, snapI, snapJ>>

\* lines 88-113: the combination (a, b), then b++, or a++ with b = 2, or,
\* after the last one, j++ (line 76)
Combine ==
  /\ splitPc = "snapping"
  /\ endpoints # <<>>
  /\ modifiedSegments' =
       snapCombination(modifiedSegments, snapI, snapJ,
                       endpoints[snapA].isStart, endpoints[snapB].isStart,
                       endpoints[snapA].point, endpoints[snapB].point)
  /\ IF snapB < 4
     THEN /\ snapB' = snapB + 1
          /\ UNCHANGED <<snapA, endpoints, snapJ>>
     ELSE IF snapA < 2
     THEN /\ snapA' = snapA + 1
          /\ snapB' = 3
          /\ UNCHANGED <<endpoints, snapJ>>
     ELSE /\ endpoints' = <<>>
          /\ snapJ' = snapJ + 1
          /\ UNCHANGED <<snapA, snapB>>
  /\ UNCHANGED <<traceVars, growthVars, unifiedRoadNetwork, workerVars, blockVars, rngVars, scanVars,
                 goalVars, splitInput, loopI, loopJ, splitPc, splits, returned, snapI>>

\* lines 75-76: the inner loop ends, i++ and j = i + 1
NextSnapOuter ==
  /\ splitPc = "snapping"
  /\ endpoints = <<>>
  /\ snapI <= Len(modifiedSegments)
  /\ snapJ > Len(modifiedSegments)
  /\ snapI' = snapI + 1
  /\ snapJ' = snapI + 2
  /\ UNCHANGED <<traceVars, growthVars, unifiedRoadNetwork, workerVars, blockVars, rngVars, scanVars,
                 goalVars, splitVars, endpoints, snapA, snapB>>

\* lines 75 and 119-166: the outer loop ends; the grouping and the return
FinishSnap ==
  /\ splitPc = "snapping"
  /\ endpoints = <<>>
  /\ snapI > Len(modifiedSegments)
  /\ returned' = <<unifiedNetworkOf(modifiedSegments)>>
  /\ splitPc' = "done"
  /\ UNCHANGED <<traceVars, growthVars, unifiedRoadNetwork, workerVars, blockVars, rngVars, scanVars,
                 goalVars, splitInput, modifiedSegments, loopI, loopJ, splits, snapVars>>

SnapNext ==
  \/ ReadEndpoints
  \/ Combine
  \/ NextSnapOuter
  \/ FinishSnap

SnapSpec == SnapInit /\ [][SnapNext]_vars

(***************************************************************************)
(* TraceSpec: the tracing of findCityBlocks (city-generator.tsx:450-521),  *)
(* one seeding edge and one step of a walk at a time.                      *)
(***************************************************************************)
\* the largest number of nodes of a sample ring
MaxRingNodes == 22

\* a rectangle whose lower side is made of n - 3 streets of 10 units: a ring
\* of n nodes
beadedRing(n) ==
  [k \in 1..(n - 3) |-> road(20 * (k - 1), 0, 20 * k, 0, FALSE)]
    \o << road(20 * (n - 3), 0, 20 * (n - 3), 200, FALSE),
          road(20 * (n - 3), 200, 0, 200, FALSE),
          road(0, 200, 0, 0, FALSE) >>

\* a rectangle of 100 by 160 units; the same with a second segment, a
\* highway, along its first side; two segments that join the same two
\* nodes; the rectangle with a street that leaves one corner outwards; three
\* streets along one line, two of them leaving the same node in the same
\* direction; a rectangle with a road across; rings of 21 and more nodes
TraceNetworks ==
  { ring(100, 160, FALSE, 0),
    ring(100, 160, FALSE, 0) \o <<road(0, 0, 200, 0, TRUE)>>,
    << road(0, 0, 200, 0, FALSE), road(0, 0, 200, 0, TRUE) >>,
    ring(100, 160, FALSE, 0) \o <<road(0, 0, -100, -100, FALSE)>>,
    << road(0, 0, 100, 0, FALSE), road(100, 0, 200, 0, FALSE),
       road(100, 0, 300, 0, FALSE) >>,
    dividedRing(130, 160, TRUE, 0) }
    \cup { beadedRing(n) : n \in 21..MaxRingNodes }

\* lines 407-457: the call, up to the first neighbor of the first node
TraceInit ==
  /\ Mounted({DefaultSeed}, {0})
  /\ RngIdle
  /\ SplitIdle
  /\ ScanIdle
  /\ GoalsIdle
  /\ SnapIdle
  /\ blockInput \in TraceNetworks
  /\ blocks = <<>>
  /\ nodeMap = graphOf(blockInput)
  /\ startIndex = 1
  /\ neighborIndex = 1
  /\ visitedEdges = {}
  /\ tracedPolygons = <<>>
  /\ seedEdges = <<>>
  /\ polygon = <<>>
  /\ segmentPath = <<>>
  /\ visited = {}
  /\ currentKey = <<>>
  /\ prevKey = <<>>
  /\ walkStep = 0
  /\ tracePc = "seeding"

\* the variables that the tracing leaves alone
notTrace == <<growthVars, unifiedRoadNetwork, workerVars, rngVars, splitVars, scanVars,
              goalVars, snapVars, blockInput, nodeMap>>

\* line 458: edgeKey, the pair of startKey and nextKey
edgeKey == <<nodeMap[startIndex].key, nodeMap[startIndex].adj[neighborIndex].node>>

\* lines 457-466: the edge to the next neighbor seeds a trace
SeedTrace ==
  /\ tracePc = "seeding"
  /\ startIndex <= Len(nodeMap)
  /\ neighborIndex <= Len(nodeMap[startIndex].adj)
  /\ edgeKey \notin visitedEdges
  /\ polygon' = <<nodeMap[startIndex].point>>
  /\ segmentPath' = <<nodeMap[startIndex].adj[neighborIndex].segment>>
  /\ visited' = {}
  /\ currentKey' = nodeMap[startIndex].adj[neighborIndex].node
  /\ prevKey' = nodeMap[startIndex].key
  /\ walkStep' = 0
  /\ seedEdges' = Append(seedEdges, edgeKey)
  /\ tracePc' = "walking"
  /\ UNCHANGED <<notTrace, blocks, startIndex, neighborIndex, visitedEdges, tracedPolygons>>

\* line 459: the edge is in visitedEdges, return
SkipEdge ==
  /\ tracePc = "seeding"
  /\ startIndex <= Len(nodeMap)
  /\ neighborIndex <= Len(nodeMap[startIndex].adj)
  /\ edgeKey \in visitedEdges
  /\ neighborIndex' = neighborIndex + 1
  /\ UNCHANGED <<notTrace, blocks, startIndex, visitedEdges, tracedPolygons, seedEdges,
                 polygon, segmentPath, visited, currentKey, prevKey, walkStep, tracePc>>

\* lines 454-457: the neighbors of the node are exhausted, the next node
NextStart ==
  /\ tracePc = "seeding"
  /\ startIndex <= Len(nodeMap)
  /\ neighborIndex > Len(nodeMap[startIndex].adj)
  /\ startIndex' = startIndex + 1
  /\ neighborIndex' = 1
  /\ UNCHANGED <<notTrace, blocks, visitedEdges, tracedPolygons, seedEdges,
                 polygon, segmentPath, visited, currentKey, prevKey, walkStep, tracePc>>

\* a faulty loop test: the walk goes on for up to 25 steps
walkConditionLong == walkStep < MaxWalkSteps + 5 /\ currentKey # nodeMap[startIndex].key

\* line 469: step < 20 && currentKey !== startKey
walkCondition == walkStep < MaxWalkSteps /\ currentKey # nodeMap[startIndex].key

\* lines 478-479
nextConnections == notBack(nodeMap[position(nodeMap, currentKey)].adj, prevKey)

\* lines 469-513: one turn of the walk's loop
WalkOn ==
  /\ tracePc = "walking"
  /\ walkCondition
  /\ IF currentKey \in visited
     THEN /\ tracePc' = "broke"
          /\ UNCHANGED <<polygon, segmentPath, visited, currentKey, prevKey, walkStep>>
     ELSE /\ visited' = visited \cup {currentKey}
          /\ polygon' = Append(polygon, pointOf(nodeMap, currentKey))
          /\ IF nextConnections = <<>>
             THEN /\ tracePc' = "broke"
                  /\ UNCHANGED <<segmentPath, currentKey, prevKey, walkStep>>
             ELSE \E bestNext \in {chooseNext(nodeMap, nextConnections,
                                              pointOf(nodeMap, currentKey),
                                              pointOf(nodeMap, prevKey))} :
                    /\ segmentPath' = Append(segmentPath, bestNext.segment)
                    /\ prevKey' = currentKey
                    /\ currentKey' = bestNext.node
                    /\ walkStep' = walkStep + 1
                    /\ tracePc' = "walking"
  /\ UNCHANGED <<notTrace, blocks, startIndex, neighborIndex, visitedEdges, tracedPolygons,
                 seedEdges>>

\* lines 469 and 515-520: the loop has ended; the polygon is kept if it is
\* closed, and the next neighbor
EndTrace ==
  /\ \/ tracePc = "broke"
     \/ tracePc = "walking" /\ ~walkCondition
  /\ IF currentKey = nodeMap[startIndex].key /\ Len(polygon) >= 3
     THEN /\ visitedEdges' = visitedEdges \cup {edgeKey}
          /\ tracedPolygons' = Append(tracedPolygons,
                                      [points |-> polygon, segments |-> segmentPath])
     ELSE UNCHANGED <<visitedEdges, tracedPolygons>>
  /\ neighborIndex' = neighborIndex + 1
  /\ tracePc' = "seeding"
  /\ UNCHANGED <<notTrace, blocks, startIndex, seedEdges, polygon, segmentPath, visited,
                 currentKey, prevKey, walkStep>>

\* lines 521-594: every node is done; the blocks of the polygons found
FinishTrace ==
  /\ tracePc = "seeding"
  /\ startIndex > Len(nodeMap)
  /\ blocks' = <<blocksFrom(tracedPolygons, 1)>>
  /\ tracePc' = "done"
  /\ UNCHANGED <<notTrace, startIndex, neighborIndex, visitedEdges, tracedPolygons, seedEdges,
                 polygon, segmentPath, visited, currentKey, prevKey, walkStep>>

TraceNext ==
  \/ SeedTrace
  \/ SkipEdge
  \/ NextStart
  \/ WalkOn
  \/ EndTrace
  \/ FinishTrace

TraceSpec == TraceInit /\ [][TraceNext]_vars
(***************************************************************************)
(* Properties.                                                             *)
(***************************************************************************)
\* the angle between two directions, in degrees, 0..180
angleApart(a, b) == Min((a - b) % 360, (b - a) % 360)

\* the first run has been published
published == pc = "idle" /\ runs >= 1

\* C1: the number of segments of the network, while it grows and once it is
\* published, never exceeds the configured segment limit.
SegmentCountWithinLimit ==
  /\ Len(newSegments) <= segmentLimit
  /\ Len(segments) <= segmentLimit

\* C1: a published network that the limit, not an empty queue, has stopped
LimitReached ==
  /\ published
  /\ segmentLimit >= 10
  /\ Len(segments) = segmentLimit
  /\ Len(priorityQ) > 0

\* the recorded length (to a unit) and direction (to three degrees, the
\* error of whole coordinates on a segment of 30 units) are those of the
\* segment's points
recordedMatchesGeometry(seg) ==
  /\ Abs(seg.length - Dist(seg.start, seg.end)) <= 1
  /\ angleApart(seg.dir, Atan2(seg.end.y - seg.start.y, seg.end.x - seg.start.x)) <= 3

\* C3: every segment's recorded length and direction match the geometry of
\* its start and end points, truncated and snapped segments included.
LengthAndDirMatchGeometry ==
  \A i \in 1..Len(newSegments) : recordedMatchesGeometry(newSegments[i])

\* C3: an accepted segment whose end was moved by a snap and whose recorded
\* direction is that of the proposal
StaleDirection ==
  \E i \in 1..Len(newSegments) :
    /\ newSegments[i].severed
    /\ newSegments[i].length < DEFAULT_SEGMENT_LENGTH
    /\ angleApart(newSegments[i].dir,
                  Atan2(newSegments[i].end.y - newSegments[i].start.y,
                        newSegments[i].end.x - newSegments[i].start.x)) > 10

\* generateCity has set up its queue and not yet taken a segment from it
seeded == pc = "growing" /\ minIndex = 0

\* the points of the two segments lie on one line through the origin
colinearThroughOrigin(a, b) ==
  \A p \in {a.start, a.end, b.start, b.end} :
    \A q \in {a.start, a.end, b.start, b.end} : p.x * q.y - p.y * q.x = 0

\* C7: generation starts from exactly two highway segments of length 400 at
\* time-step 0, colinear through the origin, pointing in opposite directions
\* (their directions differ by 180 degrees), and mutually linked.
InitialHighwaysOpposite ==
  seeded =>
    /\ Len(priorityQ) = 2
    /\ \A i \in 1..2 :
         /\ priorityQ[i].highway
         /\ priorityQ[i].length = HIGHWAY_SEGMENT_LENGTH
         /\ priorityQ[i].t = 0
    /\ colinearThroughOrigin(priorityQ[1], priorityQ[2])
    /\ angleApart(priorityQ[1].dir, priorityQ[2].dir) = 180
    /\ \E k \in 1..Len(priorityQ[1].b) : priorityQ[1].b[k] = priorityQ[2].uid
    /\ \E k \in 1..Len(priorityQ[2].f) : priorityQ[2].f[k] = priorityQ[1].uid

\* C7: the two initial segments as the code builds them: everything the
\* claim says but the directions, which are equal
InitialHighwaysSameDirection ==
  /\ seeded
  /\ Len(priorityQ) = 2
  /\ \A i \in 1..2 :
       /\ priorityQ[i].highway
       /\ priorityQ[i].length = HIGHWAY_SEGMENT_LENGTH
       /\ priorityQ[i].t = 0
  /\ colinearThroughOrigin(priorityQ[1], priorityQ[2])
  /\ priorityQ[1].dir = priorityQ[2].dir
  /\ \E k \in 1..Len(priorityQ[1].b) : priorityQ[1].b[k] = priorityQ[2].uid
  /\ \E k \in 1..Len(priorityQ[2].f) : priorityQ[2].f[k] = priorityQ[1].uid

\* the step is the end of a run whose seed and limit are the reference's
repeatsReference ==
  /\ pc = "growing"
  /\ pc' = "idle"
  /\ reference # <<>>
  /\ reference[1].seed = useSeed
  /\ reference[1].limit = segmentLimit

iterates == pc = "growing" /\ pc' = "growing"

\* the queue is empty or the limit is reached
exhausted == Len(priorityQ) = 0 \/ Len(newSegments) = segmentLimit

\* C4: generation always terminates; it stops exactly when the queue is
\* empty or the accepted count has reached the limit; for a limit of at
\* least 1 the published network is not empty.
TerminatesWhenExhausted ==
  /\ (pc = "growing") ~>
       (pc = "idle" /\ exhausted /\ segments = assignIds(newSegments)
          /\ (segmentLimit >= 1 => Len(segments) >= 1))
  /\ [][(pc = "growing" /\ exhausted) => pc' = "idle"]_vars
  /\ [][(pc = "growing" /\ ~exhausted) => pc' = "growing"]_vars

\* C4: a finished run of limit 1 or more, with candidates left in the queue
FinishedNonEmpty ==
  /\ published
  /\ segmentLimit >= 1
  /\ Len(segments) = segmentLimit
  /\ Len(priorityQ) > 0
  /\ ~postPending

\* C5: every iteration of the main loop removes exactly one candidate from
\* the queue and appends that same candidate to the accepted segments: no
\* candidate is rejected.
EachIterationAccepts ==
  [][iterates =>
       /\ Len(newSegments') = Len(newSegments) + 1
       /\ newSegments'[Len(newSegments')].uid = priorityQ[minIndex'].uid
       /\ \A k \in 1..Len(newSegments) : newSegments'[k].uid = newSegments[k].uid
       /\ Len(priorityQ') >= Len(priorityQ) - 1
       /\ \A k \in 1..Len(priorityQ) :
            /\ k < minIndex' => priorityQ'[k] = priorityQ[k]
            /\ k > minIndex' => priorityQ'[k - 1] = priorityQ[k]
       /\ \A k \in 1..Len(priorityQ') : priorityQ'[k].uid # priorityQ[minIndex'].uid]_vars

\* C5: the candidate accepted last was cut at a crossing by localConstraints
TruncatedCandidateAccepted ==
  /\ pc = "growing"
  /\ Len(newSegments) > 2
  /\ newSegments[Len(newSegments)].severed
  /\ newSegments[Len(newSegments)].length < DEFAULT_SEGMENT_LENGTH

\* the accepted segment with the given identity is not severed
unsevered(uid) ==
  \A k \in 1..Len(newSegments) : newSegments[k].uid = uid => ~newSegments[k].severed

\* C6: a severed segment produces no branches and a non-severed accepted
\* segment between 0 and 3; no queue entry is the branch of a severed segment.
SeveredProducesNoBranches ==
  /\ [][iterates =>
          IF newSegments'[Len(newSegments')].severed
          THEN Len(priorityQ') = Len(priorityQ) - 1
          ELSE Len(priorityQ') - (Len(priorityQ) - 1) \in 0..3]_vars
  /\ [](\A k \in 1..Len(priorityQ) :
          priorityQ[k].uid > 2 =>
            /\ Len(priorityQ[k].b) = 1
            /\ unsevered(priorityQ[k].b[1]))

\* C6: a severed street has been accepted last and has proposed nothing,
\* while an unsevered segment has proposed two branches and the queue holds
\* branches of unsevered segments
SeveredStreetAccepted ==
  /\ pc = "growing"
  /\ Len(newSegments) >= 3
  /\ newSegments[Len(newSegments)].severed
  /\ ~newSegments[Len(newSegments)].highway
  /\ \A e \in 1..Len(priorityQ) :
       priorityQ[e].b[1] # newSegments[Len(newSegments)].uid
  /\ \E k \in 1..Len(newSegments) :
       ~newSegments[k].severed /\ Len(newSegments[k].f) = 2
  /\ Len(priorityQ) > 0

\* C8: the candidate taken from the queue in an iteration has the smallest t
\* of the queue and, among those with that t, the lowest position.
DequeuesEarliestFirst ==
  [][iterates =>
       /\ newSegments'[Len(newSegments')].uid = priorityQ[minIndex'].uid
       /\ \A k \in 1..Len(priorityQ) :
            /\ priorityQ[k].t >= priorityQ[minIndex'].t
            /\ k < minIndex' => priorityQ[k].t > priorityQ[minIndex'].t]_vars

\* C8: a candidate was taken from a position other than the first, and the
\* smallest t of the queue is now shared by two candidates
TiedCandidates ==
  /\ pc = "growing"
  /\ minIndex > 1
  /\ \E i \in 1..Len(priorityQ) :
       \E j \in (i + 1)..Len(priorityQ) :
         /\ priorityQ[i].t = priorityQ[j].t
         /\ \A k \in 1..Len(priorityQ) : priorityQ[k].t >= priorityQ[i].t

\* the delay of branch e proposed from the accepted segment c
delayOf(e, c) ==
  IF e.highway THEN 0
  ELSE IF c.highway THEN 3
  ELSE IF angleApart(e.dir, c.dir) < 45 THEN 0
  ELSE 1

\* C9: a branch proposed from an accepted candidate c enters the queue with
\* t = c.t + 1 + delay (0 for a continuation and for a highway branch, 3 for
\* a street off a highway, 1 for a street off a street), with c in its
\* backward links and itself in c's forward links.
BranchTimeAndLinks ==
  [][iterates =>
       \A k \in Len(priorityQ)..Len(priorityQ') :
         /\ priorityQ'[k].t =
              priorityQ[minIndex'].t + 1
                + delayOf(priorityQ'[k], newSegments'[Len(newSegments')])
         /\ newSegments'[Len(newSegments')].t = priorityQ[minIndex'].t
         /\ \E b \in 1..Len(priorityQ'[k].b) :
              priorityQ'[k].b[b] = newSegments'[Len(newSegments')].uid
         /\ \E f \in 1..Len(newSegments'[Len(newSegments')].f) :
              newSegments'[Len(newSegments')].f[f] = priorityQ'[k].uid]_vars

\* C9: the queue holds a street that branches off the street accepted last,
\* a continuation of it, and a street that branches off a highway
BranchesOfEveryDelay ==
  /\ pc = "growing"
  /\ Len(newSegments) > 0
  /\ ~newSegments[Len(newSegments)].highway
  /\ \E k \in 1..Len(priorityQ) :
       /\ priorityQ[k].b[1] = newSegments[Len(newSegments)].uid
       /\ priorityQ[k].t = newSegments[Len(newSegments)].t + 2
  /\ \E k \in 1..Len(priorityQ) :
       /\ priorityQ[k].b[1] = newSegments[Len(newSegments)].uid
       /\ priorityQ[k].t = newSegments[Len(newSegments)].t + 1
  /\ \E k \in 1..Len(priorityQ) : \E c \in 1..Len(newSegments) :
       /\ priorityQ[k].b[1] = newSegments[c].uid
       /\ priorityQ[k].t = newSegments[c].t + 4

\* C10: for every message it handles the worker posts exactly one response,
\* and no exception escapes its handler, whatever the message holds.
OneResponsePerMessage ==
  [][Len(workerInbox') < Len(workerInbox) =>
       /\ Len(mainInbox') = Len(mainInbox) + 1
       /\ errorEvents' = errorEvents]_vars

\* C10: the one message posted has been handled: no response, an error event
UncaughtWithoutResponse ==
  /\ rawPosted = 1
  /\ workerInbox = <<>>
  /\ mainInbox = <<>>
  /\ unifiedRoadNetwork = <<>>
  /\ errorEvents = 1


\* the step handles the first response of the main thread's inbox
handlesResponse == mainInbox # <<>> /\ Len(mainInbox') < Len(mainInbox)

\* C11: handling a failure response leaves the stored unified network as it
\* is; the stored network changes only when a success response that carries
\* a network is handled, and then to that network.
FailureKeepsNetwork ==
  [][/\ (handlesResponse /\ ~Head(mainInbox).success
          => unifiedRoadNetwork' = unifiedRoadNetwork)
     /\ (unifiedRoadNetwork' # unifiedRoadNetwork
          => /\ handlesResponse
             /\ Head(mainInbox).success
             /\ Head(mainInbox).unifiedNetwork # <<>>
             /\ unifiedRoadNetwork' = Head(mainInbox).unifiedNetwork)]_vars

\* C11: the response handled last was a failure, and a network stored before
\* it is still stored
NetworkKeptAfterFailure ==
  /\ received # <<>>
  /\ ~received[1].success
  /\ received[1].error # ""
  /\ unifiedRoadNetwork # <<>>

\* C12: every block findCityBlocks returns has at least 3 points and a
\* shoelace area of at least 15000
BlocksAreLargePolygons ==
  blocks # <<>> =>
    \A i \in 1..Len(blocks[1]) :
      /\ Len(blocks[1][i].points) >= 3
      /\ ~areaBelow(blocks[1][i].points, MinBlockArea)

\* C12, amended: every block findCityBlocks returns has at least 3 points and
\* is the inset of a traced loop whose shoelace area is at least 15000
BlocksInsetFromLargeLoops ==
  blocks # <<>> =>
    \A i \in 1..Len(blocks[1]) :
      /\ Len(blocks[1][i].points) >= 3
      /\ \E loop \in { foundPolygons(graphOf(blockInput))[k] :
                          k \in 1..Len(foundPolygons(graphOf(blockInput))) } :
           /\ ~areaBelow(loop.points, MinBlockArea)
           /\ blocks[1][i].points = insetFrom(loop.points, loop.segments, 1)

\* C12: a returned block of at least 3 points whose area is below 15000
SmallBlockReturned ==
  /\ blocks # <<>>
  /\ \E i \in 1..Len(blocks[1]) :
       /\ Len(blocks[1][i].points) >= 3
       /\ areaBelow(blocks[1][i].points, MinBlockArea)

\* the segment endpoints of paths whose rounded key is key
endpointsAt(paths, key) ==
  Cardinality({ i \in 1..Len(paths) : keyOf(paths[i].start) = key })
    + Cardinality({ i \in 1..Len(paths) : keyOf(paths[i].end) = key })

\* the unified network of the last response handled, when it carries one
builtNetwork == received[1].unifiedNetwork[1]

\* C13: a connection point is an intersection exactly when at least 3
\* endpoints of the split and snapped segments share its rounded key; every
\* endpoint's key has its connection point
IntersectionIffThreeEndpoints ==
  (received # <<>> /\ received[1].success) =>
    /\ \A k \in 1..Len(builtNetwork.connectionPoints) :
         builtNetwork.connectionPoints[k].isIntersection
           <=> endpointsAt(builtNetwork.paths, builtNetwork.connectionPoints[k].key) >= 3
    /\ \A i \in 1..Len(builtNetwork.paths) :
         \A p \in {builtNetwork.paths[i].start, builtNetwork.paths[i].end} :
           \E k \in 1..Len(builtNetwork.connectionPoints) :
             builtNetwork.connectionPoints[k].key = keyOf(p)

\* C13: a network with a point of exactly 3 endpoints marked, and points of
\* 1 and of 2 endpoints not marked
ThreeWayAndPlainPoints ==
  /\ received # <<>>
  /\ received[1].success
  /\ \E k \in 1..Len(builtNetwork.connectionPoints) :
       /\ builtNetwork.connectionPoints[k].isIntersection
       /\ endpointsAt(builtNetwork.paths, builtNetwork.connectionPoints[k].key) = 3
  /\ \A n \in 1..2 :
       \E k \in 1..Len(builtNetwork.connectionPoints) :
         /\ ~builtNetwork.connectionPoints[k].isIntersection
         /\ endpointsAt(builtNetwork.paths, builtNetwork.connectionPoints[k].key) = n

\* C14: seedRandom(s) sets the RNG state to s; random() replaces the state
\* by frac(sin(state) * 10000) and returns that new state, a value in [0, 1)
\* (the state is a number, the value is in ten-thousandths)
RandomFeedsItsValueBack ==
  lastCall # <<>> =>
    /\ lastCall[1].call = "seedRandom" => seed = lastCall[1].arg
    /\ lastCall[1].call = "random" =>
         /\ 10000 * seed = lastCall[1].value
         /\ lastCall[1].value \in 0..9999

\* C14, amended: seedRandom(s) sets the RNG state to s; random() returns
\* frac(sin(state) * 10000), a value in [0, 1), and replaces the state by
\* state + 1
RandomCountsUp ==
  lastCall # <<>> =>
    /\ lastCall[1].call = "seedRandom" => seed = lastCall[1].arg
    /\ lastCall[1].call = "random" =>
         /\ seed = lastCall[1].from + 1
         /\ lastCall[1].value \in 0..9999
         /\ lastCall[1].value =
              IF lastCall[1].from >= DefaultSeed
              THEN DefaultRandTable[lastCall[1].from - DefaultSeed + 1]
              ELSE RandTable[lastCall[1].from]

\* C14: the second draw after seedRandom(12345), computed from 12346
SecondDrawFromCounter ==
  /\ lastCall # <<>>
  /\ lastCall[1].call = "random"
  /\ lastCall[1].from = DefaultSeed + 1
  /\ draws >= 2
  /\ seed = DefaultSeed + 2

\* segment a with its link annotations taken from segment b
withLinksOf(a, b) == [a EXCEPT !.f = b.f, !.b = b.b]

\* C15: once accepted, a segment keeps its start, end, width and highway
\* flag; the accepted list only grows, by appending; a later candidate
\* changes nothing of an accepted segment but its link annotations
AcceptedGeometryFrozen ==
  [][/\ Len(newSegments') \in {Len(newSegments), Len(newSegments) + 1}
     /\ \A i \in 1..Len(newSegments) :
          /\ newSegments'[i].start = newSegments[i].start
          /\ newSegments'[i].end = newSegments[i].end
          /\ newSegments'[i].width = newSegments[i].width
          /\ newSegments'[i].highway = newSegments[i].highway
          /\ newSegments'[i] = withLinksOf(newSegments[i], newSegments'[i])]_vars

\* C15: an accepted segment carries a link to a candidate that was severed
\* against it after its own acceptance, and a segment was accepted since
LinkedByLaterCandidate ==
  \E i, j, k \in 1..Len(newSegments) :
    /\ i < j
    /\ j < k
    /\ newSegments[j].severed
    /\ newSegments[i].uid \in { newSegments[j].f[n] : n \in 1..Len(newSegments[j].f) }
    /\ newSegments[j].uid \in { newSegments[i].f[n] : n \in 1..Len(newSegments[i].f) }
                              \cup { newSegments[i].b[n] : n \in 1..Len(newSegments[i].b) }
    /\ newSegments[j].end \in {newSegments[i].start, newSegments[i].end}

\* C16: buildUnifiedRoadNetwork returns on every list; its split pass, whose
\* loops run to the current length of the list, appends finitely many
\* segments
BuildTerminates ==
  /\ <>(splitPc = "done")
  /\ [](splitPc = "done" =>
          /\ returned = <<buildUnifiedRoadNetwork(splitInput)>>
          /\ Len(modifiedSegments) = Len(splitInput) + splits)

\* C16: a call has returned after splits, having visited appended segments
ReturnedAfterSplits ==
  /\ splitPc = "done"
  /\ splits >= 4
  /\ loopI > Len(splitInput) + 1

\* the accepted segment the scan of localConstraints is at
scannedOther == scanExisting[scanIndex]

\* where the candidate as it is now meets the scanned segment: <<>> or <<point>>
crossing ==
  doSegmentsIntersect(scanSegment.start, scanSegment.end,
                      scannedOther.start, scannedOther.end)

\* C17: when the candidate, as it is now, intersects the scanned segment more
\* than 30 units from its start, its end becomes that point, it is severed
\* and each segment is added to the other's forward links; otherwise the
\* intersection check changes nothing
TruncatesBeyondThirty ==
  [][(scanPc = "truncation" /\ scanPc' = "snap") =>
       IF crossing # <<>> /\ DistSq(crossing[1], scanSegment.start) > 30 * 30
       THEN /\ scanSegment'.end = crossing[1]
            /\ scanSegment'.start = scanSegment.start
            /\ scanSegment'.severed
            /\ scanSegment'.f = Append(scanSegment.f, scannedOther.uid)
            /\ scanSegment'.b = scanSegment.b
            /\ scanExisting' =
                 [scanExisting EXCEPT ![scanIndex].f = Append(@, scanSegment.uid)]
       ELSE /\ scanSegment' = scanSegment
            /\ scanExisting' = scanExisting]_vars

\* C17: a candidate whose end an earlier check had moved has just been
\* truncated at the second accepted segment
TruncatedAfterEarlierChange ==
  /\ scanPc = "snap"
  /\ scanIndex = 2
  /\ Len(fired) >= 2
  /\ fired[Len(fired)].check = "truncation"
  /\ fired[Len(fired)].index = 2
  /\ fired[1].end # scanGiven[1].end
  /\ scanSegment.end = fired[Len(fired)].end
  /\ scanSegment.severed

\* the candidate's end is less than 50 units from point p
endWithinSnap(p) == DistSq(scanSegment.end, p) < 50 * 50

\* C18: when the candidate's end, as it is now, is within 50 units of the
\* scanned segment's start it snaps there (severed, the scanned segment in
\* its forward links, itself in the scanned segment's backward links); only
\* when it is not, and it is within 50 units of the scanned segment's end,
\* it snaps there (severed, each in the other's forward links); otherwise
\* the snap check changes nothing
SnapsToStartElseEnd ==
  [][(scanPc = "snap" /\ scanPc' = "truncation") =>
       IF endWithinSnap(scannedOther.start)
       THEN /\ scanSegment' = [scanSegment EXCEPT !.end = scannedOther.start,
                                                  !.severed = TRUE,
                                                  !.f = Append(@, scannedOther.uid)]
            /\ scanExisting' =
                 [scanExisting EXCEPT ![scanIndex].b = Append(@, scanSegment.uid)]
       ELSE IF endWithinSnap(scannedOther.end)
       THEN /\ scanSegment' = [scanSegment EXCEPT !.end = scannedOther.end,
                                                  !.severed = TRUE,
                                                  !.f = Append(@, scannedOther.uid)]
            /\ scanExisting' =
                 [scanExisting EXCEPT ![scanIndex].f = Append(@, scanSegment.uid)]
       ELSE /\ scanSegment' = scanSegment
            /\ scanExisting' = scanExisting]_vars

\* C18: the candidate's end was within 50 units of both ends of the first
\* accepted segment and has been snapped to its start
SnappedToStartOfNearSegment ==
  /\ scanPc = "truncation"
  /\ scanIndex = 2
  /\ fired # <<>>
  /\ fired[Len(fired)] = [index |-> 1, check |-> "snap", end |-> scanExisting[1].start]
  /\ scanSegment.end = scanExisting[1].start
  /\ DistSq(scanGiven[1].end, scanExisting[1].end) < 50 * 50
  /\ scanExisting[1].f = <<>>
  /\ scanExisting[1].b = <<scanSegment.uid>>

\* the end the last check that fired gave the candidate; the given end if none did
lastFiredEnd == IF fired = <<>> THEN scanGiven[1].end ELSE fired[Len(fired)].end

\* C19: localConstraints runs the truncation check and then the snap check
\* for every accepted segment in list order and returns only after the last
\* one; the candidate's end is then the one set by the last check that
\* fired, and the result is that of the checks applied in this order
ChecksRunInOrderToTheEnd ==
  /\ [][/\ scanPc = "truncation" /\ scanPc' # scanPc =>
             \/ scanPc' = "snap" /\ scanIndex' = scanIndex
             \/ scanPc' = "done" /\ scanIndex = Len(scanExisting) + 1
        /\ scanPc = "snap" =>
             scanPc' \in {"snap", "truncation"} /\ scanIndex' \in {scanIndex, scanIndex + 1}
        /\ scanPc = "snap" /\ scanPc' = "truncation" => scanIndex' = scanIndex + 1
        /\ scanPc = "done" => scanPc' = "done"]_vars
  /\ [](scanPc = "done" =>
          /\ scanSegment.end = lastFiredEnd
          /\ localConstraints(scanGiven[1], scanGiven[2])
               = [accepted |-> TRUE, segment |-> scanSegment, existing |-> scanExisting])
  /\ <>(scanPc = "done")

\* C19: a call has returned in which the snap against the first accepted
\* segment replaced the end its truncation had set and the second segment
\* then truncated the candidate as modified
SnapOverwroteTruncation ==
  /\ scanPc = "done"
  /\ Len(fired) = 3
  /\ fired[1].index = 1 /\ fired[1].check = "truncation"
  /\ fired[2].index = 1 /\ fired[2].check = "snap"
  /\ fired[2].end # fired[1].end
  /\ fired[3].index = 2 /\ fired[3].check = "truncation"
  /\ doSegmentsIntersect(scanGiven[1].start, scanGiven[1].end,
                         scanGiven[2][2].start, scanGiven[2][2].end) # <<fired[3].end>>
  /\ scanSegment.end = fired[3].end

\* the segment a step of the loop has accepted, and the proposals it queued
justAccepted == newSegments'[Len(newSegments')]

proposed == SubSeq(priorityQ', Len(priorityQ), Len(priorityQ'))

\* the population at a point, in thousandths
populationAt(p) == heatmapNoise(p.x, p.y)

\* the ends of the straight and of the curved continuation of highway h,
\* the curve drawn with the RNG in state s
straightEnd(h) == Advance(h.end, h.dir, 400)

curvedEnd(h, s) == Advance(h.end, h.dir + curveDeviation(random(s).value), 400)

\* branch e leaves h's end at a right angle, len units long
perpendicularFrom(e, h, len) ==
  /\ e.start = h.end
  /\ e.end \in {Advance(h.end, h.dir + 90, len), Advance(h.end, h.dir - 90, len)}
  /\ e.length = len

\* C20: a highway accepted without being severed proposes, first, exactly
\* one highway continuation of length 400 from its end, the curved one when
\* the population at its end is strictly higher than at the straight one's
\* and else the straight one; then at most one perpendicular highway branch
\* of length 400, only with a population above 0.3 at the accepted end; then
\* at most one perpendicular street of length 300 and local delay 3, only
\* with a population above 0.2
HighwayProposals ==
  [][(/\ Len(newSegments') = Len(newSegments) + 1
      /\ justAccepted.highway
      /\ ~justAccepted.severed) =>
       /\ Len(proposed) \in 1..3
       /\ proposed[1].highway
       /\ proposed[1].start = justAccepted.end
       /\ proposed[1].length = 400
       /\ proposed[1].t = justAccepted.t + 1
       /\ proposed[1].end =
            IF populationAt(curvedEnd(justAccepted, seed))
                 > populationAt(straightEnd(justAccepted))
            THEN curvedEnd(justAccepted, seed)
            ELSE straightEnd(justAccepted)
       /\ \A k \in 2..Len(proposed) :
            IF proposed[k].highway
            THEN /\ k = 2
                 /\ populationAt(justAccepted.end) > 300
                 /\ perpendicularFrom(proposed[k], justAccepted, 400)
                 /\ proposed[k].t = justAccepted.t + 1
            ELSE /\ k = Len(proposed)
                 /\ populationAt(justAccepted.end) > 200
                 /\ perpendicularFrom(proposed[k], justAccepted, 300)
                 /\ proposed[k].t = justAccepted.t + 1 + 3]_vars

\* the queue entries proposed by the last accepted segment
queuedByLast ==
  SelectSeq(priorityQ, LAMBDA e : e.b = <<newSegments[Len(newSegments)].uid>>)

\* C20: the last accepted segment is an unsevered highway whose queued
\* proposals are a curved continuation and a perpendicular highway branch
CurvedWithHighwayBranch ==
  /\ Len(newSegments) > 0
  /\ newSegments[Len(newSegments)].highway
  /\ ~newSegments[Len(newSegments)].severed
  /\ Len(queuedByLast) >= 2
  /\ queuedByLast[1].highway
  /\ queuedByLast[1].end # straightEnd(newSegments[Len(newSegments)])
  /\ queuedByLast[2].highway
  /\ perpendicularFrom(queuedByLast[2], newSegments[Len(newSegments)], 400)

\* segment e leaves the end of h in direction d and is len units long; the
\* length is that between end points in whole units, within 1 of len
leaves(e, h, d, len) ==
  /\ e.start = h.end
  /\ e.end = Advance(h.end, d, len)
  /\ Abs(e.length - len) <= 1

\* C21: from a street that is not severed, globalGoals returns no branch
\* when the population at the street's end is at most 0.2; otherwise it
\* returns exactly one straight street continuation of length 300 from the
\* street's end and then at most one perpendicular street of length 300
\* with local delay 1; none of the branches is a highway
StreetProposals ==
  (/\ goalsBranches # <<>>
   /\ ~goalsGiven[1].highway
   /\ ~goalsGiven[1].severed) =>
    /\ \A k \in 1..Len(goalsBranches[1]) : ~goalsBranches[1][k].highway
    /\ IF populationAt(goalsGiven[1].end) <= 200
       THEN goalsBranches[1] = <<>>
       ELSE /\ Len(goalsBranches[1]) \in 1..2
            /\ leaves(goalsBranches[1][1], goalsGiven[1], goalsGiven[1].dir, 300)
            /\ goalsBranches[1][1].t = 0
            /\ Len(goalsBranches[1]) = 2 =>
                 /\ \/ leaves(goalsBranches[1][2], goalsGiven[1],
                              goalsGiven[1].dir + 90, 300)
                    \/ leaves(goalsBranches[1][2], goalsGiven[1],
                              goalsGiven[1].dir - 90, 300)
                 /\ goalsBranches[1][2].t = 1

\* C21: an unsevered street at a population above 0.2 has returned its
\* continuation and a perpendicular street
StreetContinuedAndBranched ==
  /\ goalsBranches # <<>>
  /\ ~goalsGiven[1].highway
  /\ ~goalsGiven[1].severed
  /\ populationAt(goalsGiven[1].end) > 200
  /\ Len(goalsBranches[1]) = 2

\* a turn of the inner split loop: the pair (loopI, loopJ) is examined
examinesPair == splitPc = "splitting" /\ loopI' = loopI /\ loopJ' = loopJ + 1

\* where the segments of the examined pair meet: <<>> or <<point>>
pairCrossing ==
  getLineIntersection(modifiedSegments[loopI].start, modifiedSegments[loopI].end,
                      modifiedSegments[loopJ].start, modifiedSegments[loopJ].end)

\* point X is more than 10 units from both ends of segment k
farFromEnds(X, k) ==
  /\ DistSq(X, modifiedSegments[k].start) > 20 * 20
  /\ DistSq(X, modifiedSegments[k].end) > 20 * 20

\* the segments the turn appends that run from X to the end segment k had,
\* with the width and the highway flag of segment k
farParts(X, k) ==
  { n \in (Len(modifiedSegments) + 1)..Len(modifiedSegments') :
      modifiedSegments'[n] = [start |-> X, end |-> modifiedSegments[k].end,
                              width |-> modifiedSegments[k].width,
                              highway |-> modifiedSegments[k].highway] }

\* C22: when the two segments of the examined pair meet at X, each of them
\* that has X more than 10 units from both its ends is shortened to end at X
\* and exactly one segment from X to its former end, of its width and
\* highway flag, is appended; each of them that has X within 10 units of one
\* of its ends stays as it is, whatever happens to the other; nothing else
\* is changed or appended
SplitsAwayFromEnds ==
  [][examinesPair =>
       /\ \A k \in 1..Len(modifiedSegments) :
            IF k \in {loopI, loopJ} /\ pairCrossing # <<>>
                 /\ farFromEnds(pairCrossing[1], k)
            THEN /\ modifiedSegments'[k]
                      = [modifiedSegments[k] EXCEPT !.end = pairCrossing[1]]
                 /\ Cardinality(farParts(pairCrossing[1], k)) = 1
            ELSE modifiedSegments'[k] = modifiedSegments[k]
       /\ Len(modifiedSegments') - Len(modifiedSegments) =
            Cardinality({ k \in {loopI, loopJ} :
                            pairCrossing # <<>> /\ farFromEnds(pairCrossing[1], k) })]_vars

\* C22: the pair examined last met at a point exactly 10 units from the end
\* of its first segment, which stayed as it was, while its second segment
\* was shortened to that point and its far part appended
SplitOneOfPair ==
  /\ splitPc = "splitting"
  /\ loopJ > loopI + 1
  /\ loopJ - 1 <= Len(splitInput)
  /\ splits % 2 = 1
  /\ DistSq(modifiedSegments[Len(modifiedSegments)].start,
            modifiedSegments[loopI].end) = 20 * 20
  /\ modifiedSegments[loopJ - 1].end = modifiedSegments[Len(modifiedSegments)].start
  /\ modifiedSegments[Len(modifiedSegments)].end = copyOf(splitInput)[loopJ - 1].end

\* the segments of the list that the split pass has appended
appended == (Len(splitInput) + 1)..Len(modifiedSegments)

\* C23 as claimed: the split pass examines pairs of input segments only, and
\* a segment it has appended is never split
ScansInputOnly ==
  [][examinesPair =>
       /\ loopI <= Len(splitInput)
       /\ loopJ <= Len(splitInput)
       /\ \A n \in appended : modifiedSegments'[n] = modifiedSegments[n]]_vars

\* C23: the split pass is one scan over the list as it grows.  A turn of the
\* inner loop examines positions i < j of the list as it is, appended
\* segments included; the inner loop ends only beyond the last position of
\* the list as it is, and then i advances by one and j restarts at i + 1; the
\* pass ends only when i is beyond the last position.  So the pairs are
\* examined in increasing order, none twice, and a segment appended while
\* the outer loop is at i is examined against the segments from i on and
\* against none before i
ScansGrowingList ==
  [][splitPc = "splitting" =>
       \/ /\ examinesPair
          /\ loopI < loopJ
          /\ loopJ <= Len(modifiedSegments)
       \/ /\ loopJ > Len(modifiedSegments)
          /\ loopI <= Len(modifiedSegments)
          /\ loopI' = loopI + 1
          /\ loopJ' = loopI' + 1
          /\ modifiedSegments' = modifiedSegments
          /\ splitPc' = "splitting"
       \/ /\ loopI > Len(modifiedSegments)
          /\ Len(modifiedSegments') = Len(modifiedSegments)
          /\ splitPc' = "done"]_vars

\* C23: the pair being examined has an appended segment as its first member,
\* and an appended segment has been split: its end is no end of an input
\* segment
AppendedSegmentSplit ==
  /\ splitPc = "splitting"
  /\ loopI \in appended
  /\ loopJ <= Len(modifiedSegments)
  /\ \E n \in appended :
       \A k \in 1..Len(splitInput) :
         modifiedSegments[n].end # copyOf(splitInput)[k].end

\* a step of the snap pass that handles the combination (snapA, snapB)
combines ==
  /\ splitPc = "snapping"
  /\ endpoints # <<>>
  /\ <<snapA, snapB, snapJ>>' # <<snapA, snapB, snapJ>>

\* where the endpoint that ep stands for is now, and after the step
positionNow(ep) ==
  IF ep.isStart THEN modifiedSegments[ep.seg].start ELSE modifiedSegments[ep.seg].end

positionNext(ep) ==
  IF ep.isStart THEN modifiedSegments'[ep.seg].start ELSE modifiedSegments'[ep.seg].end

\* C24: every combination of the snap pass tests the distance between the
\* two endpoints where they are at that moment, moves made by earlier
\* combinations of the same pair included; when it is at most 50 units both
\* endpoints move to the midpoint of those positions, and so coincide after
\* the step, and otherwise the step moves nothing
SnapsWhereEndpointsAre ==
  [][combines =>
       IF DistSq(positionNow(endpoints[snapA]), positionNow(endpoints[snapB]))
            <= 100 * 100
       THEN /\ positionNext(endpoints[snapA])
                 = midpoint(positionNow(endpoints[snapA]), positionNow(endpoints[snapB]))
            /\ positionNext(endpoints[snapB]) = positionNext(endpoints[snapA])
       ELSE modifiedSegments' = modifiedSegments]_vars

\* C24: the start of segment i, snapped together with the start of segment
\* j by the first combination, has been snapped again from the position the
\* array endpoints holds for it, to the midpoint of that position and the
\* end of segment j; the start of segment j is left where the first
\* combination put it
SnappedFromStalePosition ==
  /\ splitPc = "snapping"
  /\ endpoints # <<>>
  /\ snapA = 2
  /\ snapB = 3
  /\ modifiedSegments[snapJ].start = midpoint(endpoints[1].point, endpoints[3].point)
  /\ modifiedSegments[snapI].start = midpoint(endpoints[1].point, endpoints[4].point)
  /\ modifiedSegments[snapI].start = modifiedSegments[snapJ].end
  /\ modifiedSegments[snapI].start # modifiedSegments[snapJ].start
  /\ modifiedSegments[snapI].start
       # midpoint(modifiedSegments[snapJ].start, endpoints[4].point)

\* the start node of the trace under way
traceStart == nodeMap[startIndex].key

\* the keys of the graph's nodes
nodeKeys == { nodeMap[n].key : n \in 1..Len(nodeMap) }

\* the points are those of pairwise distinct nodes of the graph
distinctNodes(points) ==
  /\ \A a \in 1..Len(points) :
       /\ nodeKey(points[a]) \in nodeKeys
       /\ pointOf(nodeMap, nodeKey(points[a])) = points[a]
  /\ \A a, b \in 1..Len(points) : a # b => nodeKey(points[a]) # nodeKey(points[b])

\* C25: a trace makes at most 20 hops; at a node it has visited before, or
\* one with no neighbor other than the node just left, it stops without a
\* hop, and at any other node it hops; it yields its polygon only when it
\* ends on its start node, and every polygon yielded has at least 3 points,
\* which are those of pairwise distinct nodes of the graph
TraceStopsAndYields ==
  /\ [][walkStep' <= 20]_vars
  /\ [][(tracePc = "walking" /\ tracePc' # "seeding") =>
          IF currentKey \in visited
               \/ \A c \in 1..Len(nodeMap[position(nodeMap, currentKey)].adj) :
                    nodeMap[position(nodeMap, currentKey)].adj[c].node = prevKey
          THEN /\ tracePc' = "broke"
               /\ currentKey' = currentKey
               /\ walkStep' = walkStep
          ELSE /\ tracePc' = "walking"
               /\ walkStep' = walkStep + 1
               /\ prevKey' = currentKey
               /\ \E c \in 1..Len(nodeMap[position(nodeMap, currentKey)].adj) :
                    currentKey' = nodeMap[position(nodeMap, currentKey)].adj[c].node]_vars
  /\ [][tracedPolygons' # tracedPolygons =>
          /\ currentKey = traceStart
          /\ tracedPolygons' = Append(tracedPolygons,
                                      [points |-> polygon, segments |-> segmentPath])
          /\ Len(polygon) >= 3
          /\ distinctNodes(polygon)]_vars

\* C25: a walk has made 20 hops without coming back to its start node
StoppedAfterTwentyHops ==
  /\ tracePc = "walking"
  /\ walkStep = 20
  /\ currentKey # traceStart

\* C26: each directed edge seeds at most one trace: no pair of node keys
\* occurs twice among the seeding edges, also when several segments join the
\* same two nodes; once its trace has ended the seeding edge is in
\* visitedEdges, and an edge in visitedEdges does not seed a trace
SeedsAtMostOneTrace ==
  /\ [][seedEdges' # seedEdges =>
          /\ edgeKey \notin visitedEdges
          /\ \A a \in 1..Len(seedEdges) : seedEdges[a] # edgeKey]_vars
  /\ [][(tracePc # "seeding" /\ tracePc' = "seeding") => edgeKey \in visitedEdges']_vars

\* C26: the edge that seeded a trace which did not close, and so was not put
\* in visitedEdges, seeds a second trace along another segment that joins
\* the same two nodes
SeededTwice ==
  /\ tracePc = "walking"
  /\ walkStep = 0
  /\ neighborIndex > 1
  /\ edgeKey \notin visitedEdges
  /\ seedEdges[Len(seedEdges)] = edgeKey
  /\ \E a \in 1..(Len(seedEdges) - 1) : seedEdges[a] = edgeKey
  /\ \E k \in 1..(neighborIndex - 1) :
       /\ nodeMap[startIndex].adj[k].node = edgeKey[2]
       /\ nodeMap[startIndex].adj[k].segment # nodeMap[startIndex].adj[neighborIndex].segment

\* the adjacency list of the node the walk stands on
connectionsHere == nodeMap[position(nodeMap, currentKey)].adj

\* the neighbors of that node other than the node the walk arrived from
remaining == { c \in 1..Len(connectionsHere) : connectionsHere[c].node # prevKey }

\* the signed turn, in degrees, of a walk that came from point before to
\* point at and leaves towards point to
turnAt(before, at, to) ==
  turnAngle(Atan2(at.y - before.y, at.x - before.x), Atan2(to.y - at.y, to.x - at.x))

\* the turn of the walk under way towards the node of connection c
turnTo(c) ==
  turnAt(pointOf(nodeMap, prevKey), pointOf(nodeMap, currentKey),
         pointOf(nodeMap, connectionsHere[c].node))

\* C27: a hop never leads to the node the walk just arrived from; it follows
\* the connection, among those to other neighbors, whose signed turn angle
\* (within -180..180 degrees) is maximal, the first such connection in
\* adjacency order
HopsRightmost ==
  [][(tracePc = "walking" /\ walkStep' = walkStep + 1) =>
       /\ currentKey' # prevKey
       /\ \E c \in remaining :
            /\ currentKey' = connectionsHere[c].node
            /\ segmentPath' = Append(segmentPath, connectionsHere[c].segment)
            /\ \A d \in remaining :
                 /\ turnTo(d) \in -180..180
                 /\ turnTo(d) <= turnTo(c)
                 /\ d < c => turnTo(d) < turnTo(c)]_vars

\* C27: the walk has hopped from a node that has a neighbor behind it and
\* two neighbors ahead with the same turn, the greatest, to the first of the
\* two
HoppedToFirstOfTied ==
  /\ tracePc = "walking"
  /\ walkStep >= 1
  /\ Len(polygon) >= 2
  /\ \E c, d \in 1..Len(nodeMap[position(nodeMap, prevKey)].adj) :
       /\ c < d
       /\ nodeMap[position(nodeMap, prevKey)].adj[c].node = currentKey
       /\ nodeMap[position(nodeMap, prevKey)].adj[d].node # currentKey
       /\ nodeKey(polygon[Len(polygon) - 1])
            \notin {currentKey, nodeMap[position(nodeMap, prevKey)].adj[d].node}
       /\ turnAt(polygon[Len(polygon) - 1], polygon[Len(polygon)],
                 pointOf(nodeMap, currentKey))
            = turnAt(polygon[Len(polygon) - 1], polygon[Len(polygon)],
                     pointOf(nodeMap, nodeMap[position(nodeMap, prevKey)].adj[d].node))


\* the set of graph nodes that a found polygon was traced from
tracedNodes(found) == { nodeKey(found.points[a]) : a \in 1..Len(found.points) }

\* the found polygons that become blocks of the result
emitted == { a \in 1..Len(tracedPolygons) : blockOf(tracedPolygons[a]) # <<>> }

\* C28: findCityBlocks emits each enclosed cycle at most once: no two blocks
\* of its result are traced from the same set of graph nodes
EachCycleOnce ==
  tracePc = "done" =>
    \A a, b \in emitted :
      a # b => tracedNodes(tracedPolygons[a]) # tracedNodes(tracedPolygons[b])

\* C28: the result holds eight blocks, all of them traced from the same four
\* nodes, the corners of a rectangle: one for each directed edge of the cycle
EightBlocksOfOneCycle ==
  /\ tracePc = "done"
  /\ Len(nodeMap) = 4
  /\ Len(blocks[1]) = 8
  /\ Cardinality(emitted) = 8
  /\ \A a \in emitted : tracedNodes(tracedPolygons[a]) = nodeKeys

\* the response of the worker to the request that carries a road network
answerTo(network) == tryBuild(postedMessage(network))

\* C29: requests and responses keep the order of sending, and the last in
\* line belongs to the road network generated last: once that network's
\* request is sent, it is the last request the worker has not handled, or
\* else its response is the last one the component has not handled, or
\* else, every request being answered and every response handled, the stored
\* unified network is the one computed from it; every response is a success
LatestNetworkWins ==
  /\ \A k \in 1..Len(mainInbox) : mainInbox[k].success
  /\ (segments # <<>> /\ ~postPending) =>
       IF workerInbox # <<>>
       THEN workerInbox[Len(workerInbox)] = postedMessage(segments)
       ELSE IF mainInbox # <<>>
            THEN mainInbox[Len(mainInbox)] = answerTo(segments)
            ELSE unifiedRoadNetwork = <<buildUnifiedRoadNetwork(postedMessage(segments).segments)>>

\* C29: two road networks with different unified networks have been
\* generated, every request is answered and every response handled, and the
\* stored unified network is that of the second
SecondNetworkStored ==
  /\ runs = 2
  /\ pc = "idle"
  /\ ~postPending
  /\ workerInbox = <<>>
  /\ mainInbox = <<>>
  /\ reference # <<>>
  /\ reference[1].run = 1
  /\ answerTo(reference[1].network) # answerTo(segments)
  /\ unifiedRoadNetwork = answerTo(segments).unifiedNetwork

\* the segment was proposed by globalGoals from the accepted segment parent:
\* it is not one of the two segments the queue starts with, and parent is
\* the first of its backward links, the one globalGoals pushed (line 382);
\* the later ones are pushed by the snap of localConstraints (line 236)
spawnedFrom(branch, parent) ==
  /\ branch.uid > 2
  /\ branch.b # <<>>
  /\ branch.b[1] = parent.uid

\* C30: the t of the accepted segments does not decrease along the order of
\* acceptance, and every branch, in the queue or accepted, has a t greater
\* than that of the segment it was spawned from
AcceptedInTimeOrder ==
  /\ \A i, j \in 1..Len(newSegments) :
       i < j => newSegments[i].t <= newSegments[j].t
  /\ \A p \in 1..Len(newSegments) :
       /\ \A k \in 1..Len(priorityQ) :
            spawnedFrom(priorityQ[k], newSegments[p]) => priorityQ[k].t > newSegments[p].t
       /\ \A k \in 1..Len(newSegments) :
            spawnedFrom(newSegments[k], newSegments[p])
              => newSegments[k].t > newSegments[p].t

\* C30: a street that branches off a highway, with t greater by 4, was
\* proposed before segments that have been accepted before it; it is
\* accepted now, after segments of smaller t and after its parent
LateBranchAcceptedLast ==
  /\ pc = "growing"
  /\ Len(newSegments) >= 4
  /\ \E p \in 1..(Len(newSegments) - 2) :
       /\ spawnedFrom(newSegments[Len(newSegments)], newSegments[p])
       /\ newSegments[Len(newSegments)].t = newSegments[p].t + 4
       /\ newSegments[Len(newSegments)].uid < newSegments[Len(newSegments) - 1].uid
       /\ newSegments[Len(newSegments) - 1].t > newSegments[p].t
=============================================================================
